---- MODULE Spec2Model ----
(***************************************************************************)
(* Model of azure_img_utils: the retrying request executor                 *)
(* (cloud_partner.process_request) and the publication job orchestrator    *)
(* (AzureImage.wait_on_operation / AzureImage.submit_request).             *)
(***************************************************************************)
EXTENDS Integers, Naturals, Sequences, FiniteSets, TLC

(* ----------------------------- bounds ---------------------------------- *)
\* largest value of the retries argument of process_request
MaxRetries == 3
\* cap on the number of requests one process_request call is followed for
MaxRequests == 6
\* largest timeout argument of a direct wait_on_operation call
MaxTimeout == 8
\* longest errors list of a polled operation
MaxErrors == 2
\* longest submission history get_offer_status is applied to
MaxSubmissions == 3
\* largest max_attempts argument of an upload
MaxAttempts == 3
\* largest size of an image file
MaxSize == 2
\* longest run of characters before the date of an image name
MaxAffix == 2
\* longest sequence of calls on one offer doc
MaxCalls == 3

VARIABLES
    pr_pc,        \* position of the process_request call
    pr_N,         \* the retries argument the call was made with
    pr_json,      \* the json_response argument
    pr_retries,   \* local variable retries
    pr_sleep,     \* local variable sleep
    pr_trace,     \* requests issued and sleeps made, in order
    pr_result,    \* what the call returned
    w_pc,         \* position of the wait_on_operation / submit_request call
    w_caller,     \* which of the two methods was called
    w_job_id,     \* operation_id / job_id
    w_timeout,    \* the timeout argument of wait_on_operation
    w_time_left,  \* local variable time_left
    w_wait,       \* local variable wait
    w_polls,      \* number of get_operation calls made
    w_sleeps,     \* the time.sleep durations, in order
    w_status,     \* local variable status
    w_operation,  \* local variable operation (the last poll's answer)
    w_first_end,  \* number of the first poll that reported completed or unknown (0: none)
    w_error,      \* the exception raised
    w_result,     \* the job id submit_request returned
    st_pc,        \* position of the get_offer_status call
    st_history,   \* the submissions get_offer_submissions lists ('value')
    st_result,    \* the status get_offer_status returned
    up_pc,           \* position of the upload_image_blob / upload_azure_file call
    up_entry,        \* which of the two functions was called
    up_blob_arg,     \* the blob_name argument
    up_path,         \* the image_file argument, split at os.sep
    up_file,         \* the file at image_file
    up_force,        \* the force_replace_image argument
    up_expand,       \* the expand_image argument
    up_M,            \* the max_attempts argument the call was made with
    up_blobs0,       \* names of the blobs in the container when the call was made
    up_blobs,        \* names of the blobs in the container
    up_blob_name,    \* local variable blob_name
    up_max_attempts, \* local variable max_attempts
    up_msg,          \* local variable msg
    up_attempts,     \* number of upload_blob calls made
    up_fails,        \* number of upload_blob calls that raised
    up_opens,        \* number of open_image calls made
    up_deletes,      \* number of delete_storage_blob calls made
    up_fresh,        \* every upload_blob call so far got a stream at position 0
    up_pos,          \* position of the stream of the last attempt
    up_declared,     \* the length argument of the last upload_blob call
    up_streamed,     \* number of bytes of the stream handed to that call
    up_last_error,   \* the error the last failed upload_blob call raised
    up_error,        \* the exception the call raised
    up_result,       \* the value the call returned
    av_pc,           \* position of the add_image_version_to_offer call
    av_image_name,   \* the image_name argument, character by character
    av_today,        \* what date.today() answers
    av_doc0,         \* the plans of the doc argument when the call was made
    av_doc,          \* the plans of the doc argument
    av_sku,          \* the sku argument
    av_generation_id, \* the generation_id argument
    av_suffix,       \* the cloud_image_name_generation_suffix argument
    av_release_date, \* local variable release_date
    av_release,      \* local variable release
    av_op,           \* the function called: add or deprecate
    av_calls,        \* number of calls made on the doc so far
    av_logged,       \* log_callback has been called by this call
    gl_pc,           \* position of the go_live_with_offer call
    gl_history,      \* the submissions get_offer_submissions answers with
    gl_trace,        \* the calls go_live_with_offer has made, in order
    gl_operation_id, \* local variable operation_id
    gl_submitted,    \* the resource records handed to submit_request
    gl_result,       \* the job id go_live_with_offer returned
    ai_credentials,  \* AzureImage._credentials
    ai_credentials_file, \* AzureImage._credentials_file
    ai_sas_token,    \* AzureImage._sas_token
    ai_resource_group, \* AzureImage._resource_group
    ai_storage_account, \* AzureImage._storage_account
    ai_blob_service_client, \* AzureImage._blob_service_client
    ai_compute_client, \* AzureImage._compute_client
    ai_access_token, \* AzureImage._access_token
    ai_returned,     \* what the last property read returned or raised
    ai_invalidated,  \* a blob service client has been built and dropped
    om_pc,           \* position of the add_image_to_offer / remove_image_from_offer call
    om_op,           \* which of the two was called
    om_valid,        \* the call has its container, or its image_urn has four fields
    om_server,       \* version of the offer doc the service holds
    om_doc,          \* local variables offer_doc / plan_details
    om_trace,        \* the calls made by this call, in order
    om_submitted     \* the resources handed to submit_configure_request by this call

prvars == <<pr_pc, pr_N, pr_json, pr_retries, pr_sleep, pr_trace, pr_result>>

wvars == <<w_pc, w_caller, w_job_id, w_timeout, w_time_left, w_wait, w_polls,
           w_sleeps, w_status, w_operation, w_first_end, w_error, w_result>>

stvars == <<st_pc, st_history, st_result>>

upvars == <<up_pc, up_entry, up_blob_arg, up_path, up_file, up_force,
           up_expand, up_M, up_blobs0, up_blobs, up_blob_name,
           up_max_attempts, up_msg, up_attempts, up_fails, up_opens,
           up_deletes, up_fresh, up_pos, up_declared, up_streamed,
           up_last_error, up_error, up_result>>

avvars == <<av_pc, av_image_name, av_today, av_doc0, av_doc, av_sku,
           av_generation_id, av_suffix, av_release_date, av_release,
           av_op, av_calls, av_logged>>

glvars == <<gl_pc, gl_history, gl_trace, gl_operation_id, gl_submitted,
            gl_result>>

aivars == <<ai_credentials, ai_credentials_file, ai_sas_token,
            ai_resource_group, ai_storage_account,
            ai_blob_service_client, ai_compute_client, ai_access_token,
            ai_returned, ai_invalidated>>

omvars == <<om_pc, om_op, om_valid, om_server, om_doc,
            om_trace, om_submitted>>

vars == <<pr_pc, pr_N, pr_json, pr_retries, pr_sleep, pr_trace, pr_result,
          w_pc, w_caller, w_job_id, w_timeout, w_time_left, w_wait, w_polls,
          w_sleeps, w_status, w_operation, w_first_end, w_error, w_result,
          st_pc, st_history, st_result,
          up_pc, up_entry, up_blob_arg, up_path, up_file, up_force,
          up_expand, up_M, up_blobs0, up_blobs, up_blob_name,
          up_max_attempts, up_msg, up_attempts, up_fails, up_opens,
          up_deletes, up_fresh, up_pos, up_declared, up_streamed,
          up_last_error, up_error, up_result,
          av_pc, av_image_name, av_today, av_doc0, av_doc, av_sku,
          av_generation_id, av_suffix, av_release_date, av_release,
          av_op, av_calls, av_logged,
          gl_pc, gl_history, gl_trace, gl_operation_id, gl_submitted,
          gl_result,
          ai_credentials, ai_credentials_file, ai_sas_token,
          ai_resource_group, ai_storage_account,
          ai_blob_service_client, ai_compute_client, ai_access_token,
          ai_returned, ai_invalidated,
          om_pc, om_op, om_valid, om_server, om_doc,
          om_trace, om_submitted>>

\* the variables of the other components, which a component's steps leave alone
notPR == <<wvars, stvars, upvars, avvars, glvars, aivars, omvars>>
notW == <<prvars, stvars, upvars, avvars, glvars, aivars, omvars>>
notST == <<prvars, wvars, upvars, avvars, glvars, aivars, omvars>>
notUP == <<prvars, wvars, stvars, avvars, glvars, aivars, omvars>>
notAV == <<prvars, wvars, stvars, upvars, glvars, aivars, omvars>>
notGL == <<prvars, wvars, stvars, upvars, avvars, aivars, omvars>>
notAI == <<prvars, wvars, stvars, upvars, avvars, glvars, omvars>>
notOM == <<prvars, wvars, stvars, upvars, avvars, glvars, aivars>>
\* the variables but those of the offer calls and of their submit_request
notOMW == <<prvars, stvars, upvars, avvars, glvars, aivars>>

(* --------------------------- process_request --------------------------- *)
\* status codes a server may answer with: the two success codes, a 2xx code
\* that is neither, a client error and a server error
StatusCodes == {200, 202, 204, 404, 500}

NoValue == "none"

\* events of pr_trace
ConnEvent == [kind |-> "conn", val |-> 0]
RespEvent(code) == [kind |-> "resp", val |-> code]
SleepEvent(d) == [kind |-> "sleep", val |-> d]

IsRequest(e) == e.kind \in {"conn", "resp"}

RECURSIVE CountRequests(_)
CountRequests(t) ==
    IF t = <<>> THEN 0
    ELSE (IF IsRequest(t[Len(t)]) THEN 1 ELSE 0) + CountRequests(SubSeq(t, 1, Len(t) - 1))

\* the sleeps of a trace, in order
RECURSIVE SleepsOf(_)
SleepsOf(t) ==
    IF t = <<>> THEN <<>>
    ELSE LET r == SleepsOf(SubSeq(t, 1, Len(t) - 1))
         IN IF t[Len(t)].kind = "sleep" THEN Append(r, t[Len(t)].val) ELSE r

\* faulty variant: every 2xx status used here counts as success
IsSuccessMut(code) == code \in {200, 202, 204}
\* response.status_code in (200, 202)
IsSuccess(code) == code \in {200, 202}

\* faulty variant: gives up one retry early
RetriesExhaustedMut(r) == r <= 1
\* retries <= 0
RetriesExhausted(r) == r <= 0

\* requests.Response.raise_for_status raises for 4xx and 5xx only
RaisesForStatus(code) == code >= 400 /\ code < 600

\* sleep = sleep * 2
NextSleep(s) == s * 2

NoResponse == [status |-> 0, form |-> NoValue]

PRRunning == pr_pc = "running" /\ CountRequests(pr_trace) < MaxRequests

\* the request raises ConnectionError and the budget is spent: re-raise
PRConnectionErrorRaise ==
    /\ PRRunning
    /\ RetriesExhausted(pr_retries)
    /\ pr_trace' = Append(pr_trace, ConnEvent)
    /\ pr_pc' = "raised_connection"
    /\ UNCHANGED <<pr_N, pr_json, pr_retries, pr_sleep, pr_result>>

\* the request raises ConnectionError with budget left: decrement, double
\* the delay and continue with the next iteration (time.sleep is skipped)
PRConnectionErrorRetry ==
    /\ PRRunning
    /\ ~RetriesExhausted(pr_retries)
    /\ pr_trace' = Append(pr_trace, ConnEvent)
    /\ pr_retries' = pr_retries - 1
    /\ pr_sleep' = NextSleep(pr_sleep)
    /\ UNCHANGED <<pr_pc, pr_N, pr_json, pr_result>>

\* a response with status 200 or 202: break and return
PRSuccess ==
    /\ PRRunning
    /\ \E code \in StatusCodes :
        /\ IsSuccess(code)
        /\ pr_trace' = Append(pr_trace, RespEvent(code))
        /\ pr_pc' = "returned"
        /\ pr_result' = [status |-> code, form |-> IF pr_json THEN "json" ELSE "response"]
    /\ UNCHANGED <<pr_N, pr_json, pr_retries, pr_sleep>>

\* another status with retries <= 0: raise_for_status(); when that does not
\* raise the loop falls through to time.sleep(sleep) and goes round again
PRStatusExhausted ==
    /\ PRRunning
    /\ RetriesExhausted(pr_retries)
    /\ \E code \in StatusCodes :
        /\ ~IsSuccess(code)
        /\ IF RaisesForStatus(code)
           THEN /\ pr_trace' = Append(pr_trace, RespEvent(code))
                /\ pr_pc' = "raised_status"
           ELSE /\ pr_trace' = Append(Append(pr_trace, RespEvent(code)), SleepEvent(pr_sleep))
                /\ pr_pc' = pr_pc
    /\ UNCHANGED <<pr_N, pr_json, pr_retries, pr_sleep, pr_result>>

\* another status with budget left: decrement, double the delay, sleep
PRStatusRetry ==
    /\ PRRunning
    /\ ~RetriesExhausted(pr_retries)
    /\ \E code \in StatusCodes :
        /\ ~IsSuccess(code)
        /\ pr_trace' = Append(Append(pr_trace, RespEvent(code)), SleepEvent(NextSleep(pr_sleep)))
    /\ pr_retries' = pr_retries - 1
    /\ pr_sleep' = NextSleep(pr_sleep)
    /\ UNCHANGED <<pr_pc, pr_N, pr_json, pr_result>>

PRNext ==
    \/ PRConnectionErrorRaise /\ UNCHANGED notPR
    \/ PRConnectionErrorRetry /\ UNCHANGED notPR
    \/ PRSuccess /\ UNCHANGED notPR
    \/ PRStatusExhausted /\ UNCHANGED notPR
    \/ PRStatusRetry /\ UNCHANGED notPR

(* ------------------ wait_on_operation / submit_request ------------------ *)
\* default of the timeout parameter, used by submit_request
DefaultTimeout == 600

\* a dictionary key is modelled as <<>> when the dictionary does not carry
\* it and as <<value>> when it does
NoField == <<>>
Field(v) == <<v>>
\* a local variable that was never assigned
Unbound == "unbound"

JobIds == {"job1", "job2"}
JobStatuses == {"pending", "running", "completed", "unknown"}
JobResults == {"succeeded", "failed"}
Messages == {"m1", "m2"}

ErrorRecords == [message : {Field(m) : m \in Messages} \cup {NoField}]
ErrorLists == UNION {[1..n -> ErrorRecords] : n \in 0..MaxErrors}

\* the dictionaries get_operation may answer with: any jobStatus or none,
\* any jobResult or none, and an errors list (or none) next to a failed
\* jobResult, the only place where the list is read
Operations ==
    {operation \in [jobStatus : {Field(x) : x \in JobStatuses} \cup {NoField},
                    jobResult : {Field(x) : x \in JobResults} \cup {NoField},
                    errors : {Field(x) : x \in ErrorLists} \cup {NoField}] :
        operation.errors # NoField => operation.jobResult = Field("failed")}

\* dict.get(key, default)
Get(v, default) == IF v = NoField THEN default ELSE v[1]

MinOf(a, b) == IF a < b THEN a ELSE b

RECURSIVE SumSeq(_)
SumSeq(s) == IF s = <<>> THEN 0 ELSE s[Len(s)] + SumSeq(SubSeq(s, 1, Len(s) - 1))

RECURSIVE Pow2(_)
Pow2(k) == IF k = 0 THEN 1 ELSE 2 * Pow2(k - 1)

\* status in ('completed', 'unkown')
IsFinished(status) == status \in {"completed", "unkown"}

\* faulty variant: the delay is not capped by the remaining budget
SleepTimeMut(wait, time_left) == wait
\* sleep_time = min(wait, time_left)
SleepTime(wait, time_left) == MinOf(wait, time_left)

\* faulty variant: looks at jobStatus instead of jobResult
OperationFailedMut(operation) == Get(operation.jobStatus, NoValue) = "failed"
\* operation.get('jobResult') == 'failed'
OperationFailed(operation) == Get(operation.jobResult, NoValue) = "failed"

\* msg = 'Failed to update resource: '; then for each error
\* msg += error.get('message', ''); msg += ' '
\* (the string is kept as the sequence of the pieces concatenated)
RECURSIVE AppendErrors(_, _)
AppendErrors(msg, errors) ==
    IF errors = <<>> THEN msg
    ELSE AppendErrors(msg \o <<Get(errors[1].message, ""), " ">>, Tail(errors))

\* faulty variant: the messages are appended without the separator
FailureMessageMut(operation) ==
    LET errors == Get(operation.errors, <<>>)
    IN <<"Failed to update resource: ">> \o
       [i \in 1..Len(errors) |-> Get(errors[i].message, "")]
\* the message of the exception submit_request raises
FailureMessage(operation) ==
    AppendErrors(<<"Failed to update resource: ">>, Get(operation.errors, <<>>))

NoError == [kind |-> NoValue, status |-> NoValue, msg |-> <<>>]

NoOperation == [jobStatus |-> NoField, jobResult |-> NoField, errors |-> NoField]

\* entry of wait_on_operation: time_left = timeout; wait = 1
EnterWait(job_id, timeout) ==
    /\ w_job_id' = job_id
    /\ w_timeout' = timeout
    /\ w_time_left' = timeout
    /\ w_wait' = 1
    /\ w_pc' = "loop"

\* a direct call wait_on_operation(operation_id, timeout)
CallWaitOnOperation ==
    /\ w_pc = "idle"
    /\ \E job_id \in JobIds, timeout \in 0..MaxTimeout : EnterWait(job_id, timeout)
    /\ w_caller' = "wait_on_operation"
    /\ UNCHANGED <<w_polls, w_sleeps, w_status, w_operation, w_first_end, w_error, w_result>>

\* submit_request: submit_configure_request answers a job id and
\* wait_on_operation(job_id) is entered with the default timeout
CallSubmitRequest ==
    /\ w_pc = "idle"
    /\ \E job_id \in JobIds : EnterWait(job_id, DefaultTimeout)
    /\ w_caller' = "submit_request"
    /\ UNCHANGED <<w_polls, w_sleeps, w_status, w_operation, w_first_end, w_error, w_result>>

\* submit_request: submit_configure_request raises
SubmitConfigureError ==
    /\ w_pc = "idle"
    /\ w_caller' = "submit_request"
    /\ w_pc' = "raised_request"
    /\ w_error' = [kind |-> "request", status |-> NoValue, msg |-> <<>>]
    /\ UNCHANGED <<w_job_id, w_timeout, w_time_left, w_wait, w_polls, w_sleeps,
                   w_status, w_operation, w_first_end, w_result>>

\* which poll first reported completed or unknown
FirstEnd(status, poll) ==
    IF w_first_end = 0 /\ status \in {"completed", "unknown"} THEN poll ELSE w_first_end

\* one iteration that ends the loop: the poll reports a finished status
WaitPollFinished ==
    /\ w_pc = "loop"
    /\ w_time_left > 0
    /\ \E operation \in Operations :
        LET status == Get(operation.jobStatus, "unknown")
        IN /\ IsFinished(status)
           /\ w_operation' = operation
           /\ w_status' = status
           /\ w_first_end' = FirstEnd(status, w_polls + 1)
    /\ w_polls' = w_polls + 1
    /\ w_pc' = "returned"
    /\ UNCHANGED <<w_caller, w_job_id, w_timeout, w_time_left, w_wait, w_sleeps,
                   w_error, w_result>>

\* one iteration that goes round: poll, sleep min(wait, time_left), double
WaitPollSleep ==
    /\ w_pc = "loop"
    /\ w_time_left > 0
    /\ \E operation \in Operations :
        LET status == Get(operation.jobStatus, "unknown")
        IN /\ ~IsFinished(status)
           /\ w_operation' = operation
           /\ w_status' = status
           /\ w_first_end' = FirstEnd(status, w_polls + 1)
    /\ w_polls' = w_polls + 1
    /\ LET sleep_time == SleepTime(w_wait, w_time_left)
       IN /\ w_sleeps' = Append(w_sleeps, sleep_time)
          /\ w_time_left' = w_time_left - sleep_time
    /\ w_wait' = w_wait * 2
    /\ UNCHANGED <<w_pc, w_caller, w_job_id, w_timeout, w_error, w_result>>

\* get_operation raises (process_request gave up); the error propagates
WaitPollError ==
    /\ w_pc = "loop"
    /\ w_time_left > 0
    /\ w_polls' = w_polls + 1
    /\ w_pc' = "raised_request"
    /\ w_error' = [kind |-> "request", status |-> NoValue, msg |-> <<>>]
    /\ UNCHANGED <<w_caller, w_job_id, w_timeout, w_time_left, w_wait, w_sleeps,
                   w_status, w_operation, w_first_end, w_result>>

\* the loop condition time_left > 0 fails: the raise statement formats
\* status, which is unassigned when the loop body never ran
WaitLoopExit ==
    /\ w_pc = "loop"
    /\ ~(w_time_left > 0)
    /\ IF w_status = Unbound
       THEN /\ w_pc' = "raised_unbound_local"
            /\ w_error' = [kind |-> "UnboundLocalError", status |-> NoValue, msg |-> <<>>]
       ELSE /\ w_pc' = "raised_timeout"
            /\ w_error' = [kind |-> "timeout", status |-> w_status, msg |-> <<>>]
    /\ UNCHANGED <<w_caller, w_job_id, w_timeout, w_time_left, w_wait, w_polls,
                   w_sleeps, w_status, w_operation, w_first_end, w_result>>

\* submit_request after the wait: jobResult is failed, raise with the errors
SubmitRaiseFailed ==
    /\ w_pc = "returned"
    /\ w_caller = "submit_request"
    /\ OperationFailed(w_operation)
    /\ w_pc' = "sr_raised_failed"
    /\ w_error' = [kind |-> "failed", status |-> NoValue, msg |-> FailureMessage(w_operation)]
    /\ UNCHANGED <<w_caller, w_job_id, w_timeout, w_time_left, w_wait, w_polls,
                   w_sleeps, w_status, w_operation, w_first_end, w_result>>

\* submit_request after the wait: return job_id
SubmitReturn ==
    /\ w_pc = "returned"
    /\ w_caller = "submit_request"
    /\ ~OperationFailed(w_operation)
    /\ w_pc' = "sr_returned"
    /\ w_result' = w_job_id
    /\ UNCHANGED <<w_caller, w_job_id, w_timeout, w_time_left, w_wait, w_polls,
                   w_sleeps, w_status, w_operation, w_first_end, w_error>>

WaitNext ==
    \/ CallWaitOnOperation /\ UNCHANGED notW
    \/ CallSubmitRequest /\ UNCHANGED notW
    \/ SubmitConfigureError /\ UNCHANGED notW
    \/ WaitPollFinished /\ UNCHANGED notW
    \/ WaitPollSleep /\ UNCHANGED notW
    \/ WaitPollError /\ UNCHANGED notW
    \/ WaitLoopExit /\ UNCHANGED notW
    \/ SubmitRaiseFailed /\ UNCHANGED notW
    \/ SubmitReturn /\ UNCHANGED notW

(* --------------------------- get_offer_status --------------------------- *)
\* the value None
PyNone == "None"

TargetTypes == {"preview", "live", "draft"}

\* the submission records get_offer_submissions may list: a running
\* submission (result pending), a completed one with a result or without,
\* and one that carries neither key
Submissions ==
    {s \in [targetType : TargetTypes,
            status : {Field("running"), Field("completed"), NoField},
            result : {Field("pending"), Field("succeeded"), Field("failed"), NoField}] :
        /\ s.status = Field("running") => s.result = Field("pending")
        /\ s.status = Field("completed") => s.result # Field("pending")
        /\ s.status = NoField => s.result = NoField}

Histories == UNION {[1..n -> Submissions] : n \in 0..MaxSubmissions}

\* the multiselect hash .{status: status, result: result}: both keys are
\* always present in the projection, with None for a key the record lacks
Project(s) ==
    [status |-> Field(IF s.status = NoField THEN PyNone ELSE s.status[1]),
     result |-> Field(IF s.result = NoField THEN PyNone ELSE s.result[1])]

\* jmespath.search("value[?target.targetType=='<target>'].{...}", submissions)
RECURSIVE SearchTarget(_, _)
SearchTarget(history, target) ==
    IF history = <<>> THEN <<>>
    ELSE (IF history[1].targetType = target THEN <<Project(history[1])>> ELSE <<>>)
             \o SearchTarget(Tail(history), target)

\* no branch of the examined operation returned
NoDecision == "nodecision"

\* faulty variant: a succeeded preview is reported as succeeded
PreviewStatusMut(operation) ==
    LET status == Get(operation.status, "unknown")
        result == Get(operation.result, "unknown")
    IN IF status = "running" THEN status
       ELSE IF status = "completed" /\ result = "failed" THEN result
       ELSE IF status = "completed" /\ result = "succeeded" THEN result
       ELSE NoDecision
\* the branches on prev_ops[0]
PreviewStatus(operation) ==
    LET status == Get(operation.status, "unknown")
        result == Get(operation.result, "unknown")
    IN IF status = "running" THEN status
       ELSE IF status = "completed" /\ result = "failed" THEN result
       ELSE IF status = "completed" /\ result = "succeeded" THEN "waitingForPublisherReview"
       ELSE NoDecision

\* faulty variant: a completed submission is reported by its status
SingleLiveStatusMut(operation) ==
    LET status == Get(operation.status, "unknown")
    IN IF status = "completed" THEN status
       ELSE IF status = "running" THEN status
       ELSE NoDecision
\* the branches on live_ops[0] when len(live_ops) == 1
SingleLiveStatus(operation) ==
    LET status == Get(operation.status, "unknown")
        result == Get(operation.result, "unknown")
    IN IF status = "completed" THEN result
       ELSE IF status = "running" THEN status
       ELSE NoDecision

\* the branches of the loop body when len(live_ops) == 2
TwoLiveStatus(operation) ==
    LET status == Get(operation.status, "unknown")
        result == Get(operation.result, "unknown")
    IN IF status = "running" THEN status
       ELSE IF status = "completed" /\ result = "failed" THEN result
       ELSE NoDecision

\* for operation in live_ops: the first operation that returns decides
RECURSIVE TwoLiveLoop(_)
TwoLiveLoop(live_ops) ==
    IF live_ops = <<>> THEN NoDecision
    ELSE IF TwoLiveStatus(live_ops[1]) # NoDecision THEN TwoLiveStatus(live_ops[1])
    ELSE TwoLiveLoop(Tail(live_ops))

\* the value get_offer_status returns for a submission history
GetOfferStatus(history) ==
    LET prev_ops == SearchTarget(history, "preview")
        live_ops == SearchTarget(history, "live")
        by_preview == IF prev_ops # <<>> THEN PreviewStatus(prev_ops[1]) ELSE NoDecision
        by_live == IF Len(live_ops) = 1 THEN SingleLiveStatus(live_ops[1])
                   ELSE IF Len(live_ops) = 2 THEN TwoLiveLoop(live_ops)
                   ELSE NoDecision
    IN IF by_preview # NoDecision THEN by_preview
       ELSE IF by_live # NoDecision THEN by_live
       ELSE "unkown"

\* get_offer_status: the submissions are fetched and the status is derived
GetOfferStatusReturn ==
    /\ st_pc = "call"
    /\ st_pc' = "returned"
    /\ st_result' = GetOfferStatus(st_history)
    /\ UNCHANGED st_history

\* get_offer_status: get_durable_id or get_offer_submissions raises
GetOfferStatusRequestError ==
    /\ st_pc = "call"
    /\ st_pc' = "raised_request"
    /\ UNCHANGED <<st_history, st_result>>

StatusNext ==
    \/ GetOfferStatusReturn /\ UNCHANGED notST
    \/ GetOfferStatusRequestError /\ UNCHANGED notST

(* ------------------ upload_image_blob / upload_azure_file --------------- *)
UploadErrors == {"Permission denied", "Connection reset"}
BlobNames == {"image.raw", "custom.raw"}
\* image_file split at os.sep
ImagePaths == {<<"image.raw">>, <<"tests", "image.raw">>}

\* the file at image_file: none, a plain file of some size, or an XZ
\* compressed file with its size and the size of its decompressed content
NoFile == [exists |-> FALSE, xz |-> FALSE, raw |-> 0, expanded |-> 0]
ImageFiles ==
    {NoFile}
    \cup {[exists |-> TRUE, xz |-> FALSE, raw |-> n, expanded |-> n] : n \in 1..MaxSize}
    \cup {[exists |-> TRUE, xz |-> TRUE, raw |-> n, expanded |-> e] :
             n \in 1..MaxSize, e \in 1..(MaxSize + 1)}

\* faulty variant: the first component of the path
BaseNameMut(path) == path[1]
\* image_file.rsplit(os.sep, maxsplit=1)[-1]
BaseName(path) == path[Len(path)]

\* if not blob_name: blob_name = <base name of image_file>
DefaultBlobName(blob_arg, path) ==
    IF blob_arg = NoField THEN BaseName(path) ELSE blob_arg[1]

\* FileType.is_xz
IsXz(file) == file.exists /\ file.xz

\* FileType.get_size: the decompressed size of an XZ file, else the file size
GetSize(file) == IF IsXz(file) THEN file.expanded ELSE file.raw

\* open_image: lzma.LZMAFile if is_xz() and expand_image, else open
OpensExpanded(file, expand_image) == IsXz(file) /\ expand_image

\* number of bytes the stream open_image(image_file, 'rb') delivers
StreamLength(file, expand_image) ==
    IF OpensExpanded(file, expand_image) THEN file.expanded ELSE file.raw

\* position of the stream a with-statement has just opened
OpenPosition(previous) == 0

\* faulty variant: one attempt too many
AttemptsLeftMut(max_attempts) == max_attempts >= 0
\* while max_attempts > 0
AttemptsLeft(max_attempts) == max_attempts > 0

\* if max_attempts <= 0
BadAttempts(max_attempts) == max_attempts <= 0

\* 'Unable to upload {0}: {1}'.format(image_file, msg)
UnableToUpload(path, msg) == <<"Unable to upload ", path, ": ", msg>>

NoUploadError == [kind |-> NoValue, msg |-> <<>>]

\* faulty variant: FileNotFoundError is never caught
CatchesFileNotFoundMut(entry) == FALSE
\* upload_image_blob has except FileNotFoundError, upload_azure_file not
CatchesFileNotFound(entry) == entry = "upload_image_blob"

\* upload_image_blob: the blob exists and force_replace_image is unset
UploadRejectExisting ==
    /\ up_pc = "start"
    /\ up_entry = "upload_image_blob"
    /\ LET blob_name == DefaultBlobName(up_blob_arg, up_path)
       IN /\ blob_name \in up_blobs /\ ~up_force
          /\ up_blob_name' = blob_name
    /\ up_pc' = "raised_exists"
    /\ up_error' = [kind |-> "Exception: already exists", msg |-> <<>>]
    /\ UNCHANGED <<up_entry, up_blob_arg, up_path, up_file, up_force, up_expand, up_M,
                   up_blobs0, up_blobs, up_max_attempts, up_msg, up_attempts, up_fails,
                   up_opens, up_deletes, up_fresh, up_pos, up_declared, up_streamed,
                   up_last_error, up_result>>

\* upload_image_blob: the blob exists and force_replace_image is set: delete it
UploadDeleteExisting ==
    /\ up_pc = "start"
    /\ up_entry = "upload_image_blob"
    /\ LET blob_name == DefaultBlobName(up_blob_arg, up_path)
       IN /\ blob_name \in up_blobs /\ up_force
          /\ up_blob_name' = blob_name
          /\ up_blobs' = up_blobs \ {blob_name}
    /\ up_deletes' = up_deletes + 1
    /\ up_pc' = "check_attempts"
    /\ UNCHANGED <<up_entry, up_blob_arg, up_path, up_file, up_force, up_expand, up_M,
                   up_blobs0, up_max_attempts, up_msg, up_attempts, up_fails,
                   up_opens, up_fresh, up_pos, up_declared, up_streamed,
                   up_last_error, up_error, up_result>>

\* upload_image_blob: no blob of that name exists
UploadNameFree ==
    /\ up_pc = "start"
    /\ up_entry = "upload_image_blob"
    /\ LET blob_name == DefaultBlobName(up_blob_arg, up_path)
       IN /\ blob_name \notin up_blobs
          /\ up_blob_name' = blob_name
    /\ up_pc' = "check_attempts"
    /\ UNCHANGED <<up_entry, up_blob_arg, up_path, up_file, up_force, up_expand, up_M,
                   up_blobs0, up_blobs, up_max_attempts, up_msg, up_attempts, up_fails,
                   up_opens, up_deletes, up_fresh, up_pos, up_declared, up_streamed,
                   up_last_error, up_error, up_result>>

\* upload_image_blob: max_attempts <= 0 raises Exception
UploadRejectAttempts ==
    /\ up_pc = "check_attempts"
    /\ BadAttempts(up_max_attempts)
    /\ up_pc' = "raised_max_attempts"
    /\ up_error' = [kind |-> "Exception: max_attempts", msg |-> <<>>]
    /\ UNCHANGED <<up_entry, up_blob_arg, up_path, up_file, up_force, up_expand, up_M,
                   up_blobs0, up_blobs, up_blob_name, up_max_attempts, up_msg,
                   up_attempts, up_fails, up_opens, up_deletes, up_fresh, up_pos,
                   up_declared, up_streamed, up_last_error, up_result>>

\* upload_image_blob: the try block up to msg = ''
UploadEnterLoop ==
    /\ up_pc = "check_attempts"
    /\ ~BadAttempts(up_max_attempts)
    /\ up_pc' = "loop"
    /\ up_msg' = ""
    /\ UNCHANGED <<up_entry, up_blob_arg, up_path, up_file, up_force, up_expand, up_M,
                   up_blobs0, up_blobs, up_blob_name, up_max_attempts,
                   up_attempts, up_fails, up_opens, up_deletes, up_fresh, up_pos,
                   up_declared, up_streamed, up_last_error, up_error, up_result>>

\* upload_azure_file: everything up to msg = ''; blob_name is an argument
\* and max_retry_attempts is not checked
AzureFileEnterLoop ==
    /\ up_pc = "start"
    /\ up_entry = "upload_azure_file"
    /\ up_blob_name' = up_blob_arg[1]
    /\ up_pc' = "loop"
    /\ up_msg' = ""
    /\ UNCHANGED <<up_entry, up_blob_arg, up_path, up_file, up_force, up_expand, up_M,
                   up_blobs0, up_blobs, up_max_attempts,
                   up_attempts, up_fails, up_opens, up_deletes, up_fresh, up_pos,
                   up_declared, up_streamed, up_last_error, up_error, up_result>>

\* the loop body when open_image(image_file, 'rb') raises FileNotFoundError:
\* upload_image_blob turns it into AzureImgUtilsException, upload_azure_file
\* lets it through
UploadOpenNotFound ==
    /\ up_pc = "loop"
    /\ AttemptsLeft(up_max_attempts)
    /\ ~up_file.exists
    /\ up_opens' = up_opens + 1
    /\ IF CatchesFileNotFound(up_entry)
       THEN /\ up_pc' = "raised_not_found"
            /\ up_error' = [kind |-> "AzureImgUtilsException: not found", msg |-> <<>>]
       ELSE /\ up_pc' = "raised_file_not_found_error"
            /\ up_error' = [kind |-> "FileNotFoundError", msg |-> <<>>]
    /\ UNCHANGED <<up_entry, up_blob_arg, up_path, up_file, up_force, up_expand, up_M,
                   up_blobs0, up_blobs, up_blob_name, up_max_attempts, up_msg,
                   up_attempts, up_fails, up_deletes, up_fresh, up_pos,
                   up_declared, up_streamed, up_last_error, up_result>>

\* what one pass of the loop body does before upload_blob answers: the
\* stream is opened and handed over with length = get_size()
AttemptStarts ==
    /\ up_pc = "loop"
    /\ AttemptsLeft(up_max_attempts)
    /\ up_file.exists
    /\ up_opens' = up_opens + 1
    /\ up_attempts' = up_attempts + 1
    /\ up_fresh' = (up_fresh /\ OpenPosition(up_pos) = 0)
    /\ up_declared' = GetSize(up_file)
    /\ up_streamed' = StreamLength(up_file, up_expand)

\* one pass of the loop body, upload_blob succeeds: return
UploadAttemptSucceeds ==
    /\ AttemptStarts
    /\ up_pos' = StreamLength(up_file, up_expand)
    /\ up_blobs' = up_blobs \cup {up_blob_name}
    /\ up_pc' = "returned"
    /\ up_result' = IF up_entry = "upload_image_blob" THEN up_blob_name ELSE PyNone
    /\ UNCHANGED <<up_entry, up_blob_arg, up_path, up_file, up_force, up_expand, up_M,
                   up_blobs0, up_blob_name, up_max_attempts, up_msg, up_fails,
                   up_deletes, up_last_error, up_error>>

\* one pass of the loop body, upload_blob raises after reading part of the
\* stream: msg = error; max_attempts -= 1
UploadAttemptFails ==
    /\ AttemptStarts
    /\ \E error \in UploadErrors, read \in 0..StreamLength(up_file, up_expand) :
        /\ up_msg' = error
        /\ up_last_error' = error
        /\ up_pos' = read
    /\ up_fails' = up_fails + 1
    /\ up_max_attempts' = up_max_attempts - 1
    /\ UNCHANGED <<up_pc, up_entry, up_blob_arg, up_path, up_file, up_force, up_expand,
                   up_M, up_blobs0, up_blobs, up_blob_name, up_deletes, up_error,
                   up_result>>

\* the loop condition fails: raise AzureImgUtilsStorageException
UploadExhausted ==
    /\ up_pc = "loop"
    /\ ~AttemptsLeft(up_max_attempts)
    /\ up_pc' = "raised_storage"
    /\ up_error' = [kind |-> "AzureImgUtilsStorageException",
                    msg |-> UnableToUpload(up_path, up_msg)]
    /\ UNCHANGED <<up_entry, up_blob_arg, up_path, up_file, up_force, up_expand, up_M,
                   up_blobs0, up_blobs, up_blob_name, up_max_attempts, up_msg,
                   up_attempts, up_fails, up_opens, up_deletes, up_fresh, up_pos,
                   up_declared, up_streamed, up_last_error, up_result>>

UploadNext ==
    \/ UploadRejectExisting /\ UNCHANGED notUP
    \/ UploadDeleteExisting /\ UNCHANGED notUP
    \/ UploadNameFree /\ UNCHANGED notUP
    \/ UploadRejectAttempts /\ UNCHANGED notUP
    \/ UploadEnterLoop /\ UNCHANGED notUP
    \/ AzureFileEnterLoop /\ UNCHANGED notUP
    \/ UploadOpenNotFound /\ UNCHANGED notUP
    \/ UploadAttemptSucceeds /\ UNCHANGED notUP
    \/ UploadAttemptFails /\ UNCHANGED notUP
    \/ UploadExhausted /\ UNCHANGED notUP

(* ---------------------- add_image_version_to_offer ---------------------- *)
DigitChars == <<"0", "1", "2", "3", "4", "5", "6", "7", "8", "9">>
Digits == {DigitChars[i] : i \in 1..10}

\* image names, character by character: a date or nothing, between a
\* prefix of letters and digits and a suffix
AffixChars == {"a", "1"}
Prefixes == UNION {[1..n -> AffixChars] : n \in 0..MaxAffix}
Suffixes == {<<>>, <<"a">>, <<"1">>}
ImageDates == {<<"2", "0", "2", "3", "0", "1", "0", "1">>,
               <<"2", "0", "1", "1", "0", "2", "0", "1">>}
ImageNames ==
    {p \o d \o s : p \in Prefixes, d \in ImageDates \cup {<<>>}, s \in Suffixes}

\* date.today()
Todays == {[year |-> 2024, month |-> 2, day |-> 29],
           [year |-> 2026, month |-> 11, day |-> 5]}
NoDate == [year |-> 0, month |-> 0, day |-> 0]

DigitValue(c) == CHOOSE n \in 0..9 : DigitChars[n + 1] = c

RECURSIVE Number(_)
\* int() of a run of digits
Number(s) ==
    IF s = <<>> THEN 0
    ELSE 10 * Number(SubSeq(s, 1, Len(s) - 1)) + DigitValue(s[Len(s)])

RECURSIVE Padded(_, _)
\* a number in decimal, zero padded to width digits
Padded(n, width) ==
    IF width = 0 THEN <<>>
    ELSE Padded(n \div 10, width - 1) \o <<DigitChars[(n % 10) + 1]>>

AllDigits(s) == \A i \in 1..Len(s) : s[i] \in Digits

\* the positions at which r'\d{8}' matches
DigitWindows(name) ==
    {i \in 1..(Len(name) - 7) : AllDigits(SubSeq(name, i, i + 7))}

\* re.findall(r'\d{8}', image_name)[0]: the leftmost run of 8 digits
FirstMatch(name) ==
    LET i == CHOOSE j \in DigitWindows(name) : \A k \in DigitWindows(name) : j <= k
    IN SubSeq(name, i, i + 7)

IsLeap(year) == (year % 4 = 0 /\ year % 100 # 0) \/ year % 400 = 0

DaysInMonth(year, month) ==
    IF month = 2 THEN (IF IsLeap(year) THEN 29 ELSE 28)
    ELSE IF month \in {4, 6, 9, 11} THEN 30 ELSE 31

\* the fields '%Y%m%d' reads from 8 digits
DateFields(m) == [year |-> Number(SubSeq(m, 1, 4)),
                  month |-> Number(SubSeq(m, 5, 6)),
                  day |-> Number(SubSeq(m, 7, 8))]

\* datetime.strptime(m, '%Y%m%d') returns a date; it raises ValueError
\* otherwise
StrptimeAccepts(m) ==
    LET f == DateFields(m)
    IN /\ f.year >= 1
       /\ f.month \in 1..12
       /\ f.day \in 1..DaysInMonth(f.year, f.month)

\* release_date.strftime("%Y.%m.%d"), for the years of four digits
ReleaseKey(d) ==
    Padded(d.year, 4) \o <<".">> \o Padded(d.month, 2) \o <<".">> \o Padded(d.day, 2)

\* release_date.strftime("%m/%d/%Y")
PublishedDate(d) ==
    Padded(d.month, 2) \o <<"/">> \o Padded(d.day, 2) \o <<"/">> \o Padded(d.year, 4)

\* the offer doc: doc['definition']['plans'], each plan with its planId,
\* its optional dict of image versions and its diskGenerations
SkuIds == {"sles", "sles-byos"}
GenerationIds == {"gen2", "gen3"}
GenPlans == {[planId |-> "gen2", images |-> NoField]}
DocPlans == [planId : SkuIds, images : {NoField, Field({})},
             diskGenerations : {<<>>} \cup {<<g>> : g \in GenPlans}]
BarePlans == {p \in DocPlans : p.images = NoField /\ p.diskGenerations = <<>>}
OfferDocs == {<<p>> : p \in DocPlans} \cup {<<p, q>> : p \in DocPlans, q \in BarePlans}

\* plan.get(vm_images_key, {}): the image versions of a plan, as key/value
\* records
Entries(plan) == Get(plan.images, {})

\* what the dict holds under a release key
EntriesAt(plan, release) == {e \in Entries(plan) : e.key = release}

\* faulty variant: a second record under the same key
DictSetMut(d, key, value) == d \cup {[key |-> key, value |-> value]}
\* d[key] = value on a dict held as a set of key/value records
DictSet(d, key, value) ==
    {e \in d : e.key # key} \cup {[key |-> key, value |-> value]}

\* faulty variant: the dict is created, the version is not put in
WithVersionMut(plan, release, version) ==
    [plan EXCEPT !.images = Field(Get(plan.images, {}))]
\* if vm_images_key not in plan: plan[vm_images_key] = {}
\* plan[vm_images_key][release] = version
WithVersion(plan, release, version) ==
    [plan EXCEPT !.images = Field(DictSet(Get(plan.images, {}), release, version))]

\* the plans the loops look at, in order; the first match is taken
MatchingIdx(plans, id) == {i \in 1..Len(plans) : plans[i].planId = id}
FirstIdx(plans, id) ==
    CHOOSE i \in MatchingIdx(plans, id) : \A k \in MatchingIdx(plans, id) : i <= k

\* the local variable version
Version(name, release_date) ==
    [osVhdUrl |-> "bloburl", label |-> "label", mediaName |-> name,
     publishedDate |-> PublishedDate(release_date), description |-> "description",
     showInGui |-> TRUE]

\* '-'.join([image_name, cloud_image_name_generation_suffix or generation_id])
GenerationMediaName(name, suffix, generation_id) ==
    name \o <<"-">> \o <<IF suffix = PyNone THEN generation_id ELSE suffix>>

\* lines 326-332: the release date, once strptime has accepted the match
ReleaseDate(name, today) ==
    IF DigitWindows(name) # {} THEN DateFields(FirstMatch(name)) ELSE today

\* strptime raises ValueError
AddVersionValueError ==
    /\ av_pc = "call"
    /\ av_op = "add"
    /\ DigitWindows(av_image_name) # {}
    /\ ~StrptimeAccepts(FirstMatch(av_image_name))
    /\ av_pc' = "raised_value_error"
    /\ UNCHANGED <<av_op, av_calls, av_logged, av_image_name, av_today, av_doc0, av_doc, av_sku, av_generation_id,
                   av_suffix, av_release_date, av_release>>

\* the release date is set
DateDerived ==
    /\ av_pc = "call"
    /\ av_op = "add"
    /\ DigitWindows(av_image_name) # {} => StrptimeAccepts(FirstMatch(av_image_name))
    /\ av_release_date' = ReleaseDate(av_image_name, av_today)

\* no plan has planId == sku
AddVersionNoSku ==
    /\ DateDerived
    /\ MatchingIdx(av_doc, av_sku) = {}
    /\ av_pc' = "raised_no_sku"
    /\ UNCHANGED <<av_op, av_calls, av_logged, av_image_name, av_today, av_doc0, av_doc, av_sku, av_generation_id,
                   av_suffix, av_release>>

\* the SKU's plan gets the version; no generation_id is given, or the
\* first generation plan with that id gets its copy of the version
AddVersionReturn ==
    /\ DateDerived
    /\ MatchingIdx(av_doc, av_sku) # {}
    /\ LET i == FirstIdx(av_doc, av_sku)
           release == ReleaseKey(av_release_date')
           version == Version(av_image_name, av_release_date')
           doc_sku == WithVersion(av_doc[i], release, version)
           gens == doc_sku.diskGenerations
       IN /\ av_release' = release
          /\ IF av_generation_id = PyNone
             THEN av_doc' = [av_doc EXCEPT ![i] = doc_sku]
             ELSE /\ MatchingIdx(gens, av_generation_id) # {}
                  /\ LET g == FirstIdx(gens, av_generation_id)
                         generation_version ==
                             [version EXCEPT !.mediaName =
                                 GenerationMediaName(av_image_name, av_suffix,
                                                     av_generation_id)]
                     IN av_doc' = [av_doc EXCEPT ![i] =
                            [doc_sku EXCEPT !.diskGenerations[g] =
                                WithVersion(gens[g], release, generation_version)]]
    /\ av_pc' = "returned"
    /\ UNCHANGED <<av_op, av_calls, av_logged, av_image_name, av_today, av_doc0, av_sku, av_generation_id, av_suffix>>

\* the SKU's plan gets the version, then no generation plan has the
\* generation_id
AddVersionNoGeneration ==
    /\ DateDerived
    /\ MatchingIdx(av_doc, av_sku) # {}
    /\ av_generation_id # PyNone
    /\ LET i == FirstIdx(av_doc, av_sku)
           release == ReleaseKey(av_release_date')
           doc_sku == WithVersion(av_doc[i], release,
                                  Version(av_image_name, av_release_date'))
       IN /\ MatchingIdx(doc_sku.diskGenerations, av_generation_id) = {}
          /\ av_release' = release
          /\ av_doc' = [av_doc EXCEPT ![i] = doc_sku]
    /\ av_pc' = "raised_no_generation"
    /\ UNCHANGED <<av_op, av_calls, av_logged, av_image_name, av_today, av_doc0, av_sku, av_generation_id, av_suffix>>

AddVersionNext ==
    \/ AddVersionValueError /\ UNCHANGED notAV
    \/ AddVersionNoSku /\ UNCHANGED notAV
    \/ AddVersionReturn /\ UNCHANGED notAV
    \/ AddVersionNoGeneration /\ UNCHANGED notAV

(* --------------------- deprecate_image_in_offer_doc --------------------- *)
\* faulty variant: the flag is flipped
MarkDeprecatedMut(version) == [version EXCEPT !.showInGui = ~version.showInGui]
\* image['showInGui'] = False
MarkDeprecated(version) == [version EXCEPT !.showInGui = FALSE]

\* the plans the loop stops at: planId == sku, a non-empty dict of image
\* versions, and a version under the release key
DeprecateIdx(plans, sku, release) ==
    {i \in 1..Len(plans) : /\ plans[i].planId = sku
                           /\ Entries(plans[i]) # {}
                           /\ EntriesAt(plans[i], release) # {}}

\* the release key of a name strptime accepts
NameRelease(name) == ReleaseKey(DateFields(FirstMatch(name)))

\* no run of 8 digits in the name: return doc
DeprecateNoDate ==
    /\ av_pc = "call"
    /\ av_op = "deprecate"
    /\ DigitWindows(av_image_name) = {}
    /\ av_pc' = "returned"
    /\ UNCHANGED <<av_op, av_calls, av_logged, av_image_name, av_today, av_doc0, av_doc,
                   av_sku, av_generation_id, av_suffix, av_release_date, av_release>>

\* strptime raises ValueError
DeprecateValueError ==
    /\ av_pc = "call"
    /\ av_op = "deprecate"
    /\ DigitWindows(av_image_name) # {}
    /\ ~StrptimeAccepts(FirstMatch(av_image_name))
    /\ av_pc' = "raised_value_error"
    /\ UNCHANGED <<av_op, av_calls, av_logged, av_image_name, av_today, av_doc0, av_doc,
                   av_sku, av_generation_id, av_suffix, av_release_date, av_release>>

\* release_date and release are set
DeprecateReleaseDerived ==
    /\ av_pc = "call"
    /\ av_op = "deprecate"
    /\ DigitWindows(av_image_name) # {}
    /\ StrptimeAccepts(FirstMatch(av_image_name))
    /\ av_release_date' = DateFields(FirstMatch(av_image_name))
    /\ av_release' = NameRelease(av_image_name)

\* the loop finds the plan and the version, mediaName is the image name:
\* showInGui is set to False
DeprecateMark ==
    /\ DeprecateReleaseDerived
    /\ DeprecateIdx(av_doc, av_sku, av_release') # {}
    /\ LET i == CHOOSE j \in DeprecateIdx(av_doc, av_sku, av_release') :
                    \A k \in DeprecateIdx(av_doc, av_sku, av_release') : j <= k
           image == CHOOSE e \in EntriesAt(av_doc[i], av_release') : TRUE
       IN /\ image.value.mediaName = av_image_name
          /\ av_doc' = [av_doc EXCEPT ![i].images =
                 Field(DictSet(Entries(av_doc[i]), av_release',
                               MarkDeprecated(image.value)))]
    /\ av_pc' = "returned"
    /\ UNCHANGED <<av_op, av_calls, av_logged, av_image_name, av_today, av_doc0,
                   av_sku, av_generation_id, av_suffix>>

\* the loop finds the plan and the version, mediaName is another name:
\* log_callback is called and the doc returned as it is
DeprecateLogMismatch ==
    /\ DeprecateReleaseDerived
    /\ DeprecateIdx(av_doc, av_sku, av_release') # {}
    /\ LET i == CHOOSE j \in DeprecateIdx(av_doc, av_sku, av_release') :
                    \A k \in DeprecateIdx(av_doc, av_sku, av_release') : j <= k
           image == CHOOSE e \in EntriesAt(av_doc[i], av_release') : TRUE
       IN image.value.mediaName # av_image_name
    /\ av_logged' = TRUE
    /\ av_pc' = "returned"
    /\ UNCHANGED <<av_op, av_calls, av_image_name, av_today, av_doc0, av_doc,
                   av_sku, av_generation_id, av_suffix>>

\* the loop ends without a break: raise AzureCloudPartnerException
DeprecateNoMatch ==
    /\ DeprecateReleaseDerived
    /\ DeprecateIdx(av_doc, av_sku, av_release') = {}
    /\ av_pc' = "raised_no_match"
    /\ UNCHANGED <<av_op, av_calls, av_logged, av_image_name, av_today, av_doc0, av_doc,
                   av_sku, av_generation_id, av_suffix>>

\* image names of a sequence of calls on one doc
SeqNames == {<<"a">> \o d : d \in ImageDates}
            \cup {d \o <<"a">> : d \in ImageDates}
            \cup {<<"a">>, <<"1">> \o CHOOSE d \in ImageDates : d[4] = "3"}
SeqDocs == {<<[planId |-> "sles", images |-> NoField,
               diskGenerations |-> <<g>>]>> : g \in GenPlans}

\* the call before has ended: the doc it left is handed to another call of
\* add_image_version_to_offer or of deprecate_image_in_offer_doc
OfferDocCall ==
    /\ av_pc \in {"returned", "raised_value_error", "raised_no_sku",
                  "raised_no_generation", "raised_no_match"}
    /\ av_calls < MaxCalls
    /\ av_calls' = av_calls + 1
    /\ av_op' \in {"add", "deprecate"}
    /\ av_image_name' \in SeqNames
    /\ av_sku' \in SkuIds
    /\ av_generation_id' \in (IF av_op' = "add" THEN {PyNone} \cup GenerationIds
                                               ELSE {PyNone})
    /\ av_suffix' = PyNone
    /\ av_doc0' = av_doc
    /\ av_release_date' = NoDate
    /\ av_release' = <<>>
    /\ av_logged' = FALSE
    /\ av_pc' = "call"
    /\ UNCHANGED <<av_today, av_doc>>

OfferDocNext ==
    \/ AddVersionValueError /\ UNCHANGED notAV
    \/ AddVersionNoSku /\ UNCHANGED notAV
    \/ AddVersionReturn /\ UNCHANGED notAV
    \/ AddVersionNoGeneration /\ UNCHANGED notAV
    \/ DeprecateNoDate /\ UNCHANGED notAV
    \/ DeprecateValueError /\ UNCHANGED notAV
    \/ DeprecateMark /\ UNCHANGED notAV
    \/ DeprecateLogMismatch /\ UNCHANGED notAV
    \/ DeprecateNoMatch /\ UNCHANGED notAV
    \/ OfferDocCall /\ UNCHANGED notAV

(* --------------------------- go_live_with_offer ------------------------- *)
\* what get_offer_submissions answers: the submissions of the offer, each
\* with its target type and, as a rule, an id
GoLiveSubmissions == [targetType : TargetTypes, hasId : BOOLEAN]
GoLiveHistories == UNION {[1..n -> GoLiveSubmissions] : n \in 0..MaxSubmissions}

\* the id of the submission at a position of the history
SubmissionId(history, i) == IF history[i].hasId THEN Field(i) ELSE NoField

PreviewIdx(history) == {i \in 1..Len(history) : history[i].targetType = "preview"}

\* jmespath.search("value[?target.targetType=='preview'] | [0].id", ...):
\* None when there is no preview submission or it has no id
FirstPreviewId(history) ==
    IF PreviewIdx(history) = {} THEN NoField
    ELSE SubmissionId(history,
                      CHOOSE i \in PreviewIdx(history) :
                          \A k \in PreviewIdx(history) : i <= k)

\* the live-target record of the resources list
LiveResource(operation_id) ==
    [product |-> "product/durable_id", id |-> operation_id, targetType |-> "live"]

\* get_cloud_partner_api_headers or get_durable_id raises
GoLiveDurableIdError ==
    /\ gl_pc = "call"
    /\ gl_pc' = "raised"
    /\ gl_trace' = Append(gl_trace, "get_durable_id")
    /\ UNCHANGED <<gl_history, gl_operation_id, gl_submitted, gl_result>>

\* durable_id = get_durable_id(headers, offer_id)
GoLiveDurableId ==
    /\ gl_pc = "call"
    /\ gl_pc' = "have_durable_id"
    /\ gl_trace' = Append(gl_trace, "get_durable_id")
    /\ UNCHANGED <<gl_history, gl_operation_id, gl_submitted, gl_result>>

\* get_offer_submissions raises
GoLiveSubmissionsError ==
    /\ gl_pc = "have_durable_id"
    /\ gl_pc' = "raised"
    /\ gl_trace' = Append(gl_trace, "get_offer_submissions")
    /\ UNCHANGED <<gl_history, gl_operation_id, gl_submitted, gl_result>>

\* submissions = get_offer_submissions(...); operation_id = jmespath.search(...)
GoLiveSubmissionsRead ==
    /\ gl_pc = "have_durable_id"
    /\ gl_pc' = "have_operation_id"
    /\ gl_trace' = Append(gl_trace, "get_offer_submissions")
    /\ gl_operation_id' = FirstPreviewId(gl_history)
    /\ UNCHANGED <<gl_history, gl_submitted, gl_result>>

\* job_id = self.submit_request(resources); return job_id
GoLiveSubmitReturn ==
    /\ gl_pc = "have_operation_id"
    /\ gl_submitted' = Append(gl_submitted, LiveResource(gl_operation_id))
    /\ gl_trace' = Append(gl_trace, "submit_request")
    /\ \E job_id \in JobIds : gl_result' = job_id
    /\ gl_pc' = "returned"
    /\ UNCHANGED <<gl_history, gl_operation_id>>

\* self.submit_request(resources) raises: the request fails, the job fails
\* or the wait times out
GoLiveSubmitRaise ==
    /\ gl_pc = "have_operation_id"
    /\ gl_submitted' = Append(gl_submitted, LiveResource(gl_operation_id))
    /\ gl_trace' = Append(gl_trace, "submit_request")
    /\ gl_pc' = "raised"
    /\ UNCHANGED <<gl_history, gl_operation_id, gl_result>>

GoLiveNext ==
    \/ GoLiveDurableIdError /\ UNCHANGED notGL
    \/ GoLiveDurableId /\ UNCHANGED notGL
    \/ GoLiveSubmissionsError /\ UNCHANGED notGL
    \/ GoLiveSubmissionsRead /\ UNCHANGED notGL
    \/ GoLiveSubmitReturn /\ UNCHANGED notGL
    \/ GoLiveSubmitRaise /\ UNCHANGED notGL

(* ------------------------- AzureImage properties ------------------------ *)
CredentialsDicts == {"credentials A", "credentials B"}
CredentialsFiles == {"file 1", "file 2"}
SasTokens == {"sas 1", "sas 2"}
ResourceGroups == {"group 1", "group 2"}
StorageAccounts == {"account 1", "account 2"}

\* json.load of the credentials file
FileContent(creds_file) == <<"content of", creds_file>>

\* the credentials dicts as values of one kind with the file contents
Dict(creds) == <<"dict", creds>>
NoCredentials == <<>>

\* the credentials getter raises: neither a dict nor a file is set
CredentialsMissing(creds, creds_file) == creds = NoCredentials /\ creds_file = PyNone

\* what the credentials getter returns and leaves in _credentials
LoadedCredentials(creds, creds_file) ==
    IF creds # NoCredentials THEN creds ELSE FileContent(creds_file)

\* what get_blob_service(*args) is built from
NoClient == [kind |-> NoValue, sas_token |-> PyNone, credentials |-> NoCredentials,
             resource_group |-> PyNone, storage_account |-> PyNone]
SasClient(sas_token, storage_account) ==
    [kind |-> "sas_token", sas_token |-> sas_token, credentials |-> NoCredentials,
     resource_group |-> PyNone, storage_account |-> storage_account]
CredentialsClient(creds, resource_group, storage_account) ==
    [kind |-> "credentials", sas_token |-> PyNone, credentials |-> creds,
     resource_group |-> resource_group, storage_account |-> storage_account]

\* faulty variant: the cached client is kept
InvalidatedMut(client) == client
\* self._blob_service_client = None
Invalidated(client) == NoClient

NoReturn == [prop |-> NoValue, error |-> NoValue, token |-> NoField, client |-> NoClient]
Raised(prop, error) == [NoReturn EXCEPT !.prop = prop, !.error = error]

\* credentials setter
SetCredentials ==
    /\ \E creds \in {Dict(c) : c \in CredentialsDicts} \cup {NoCredentials} :
           ai_credentials' = creds
    /\ ai_invalidated' = (ai_invalidated \/ ai_blob_service_client # NoClient)
    /\ ai_blob_service_client' = Invalidated(ai_blob_service_client)
    /\ ai_compute_client' = NoField
    /\ ai_returned' = NoReturn
    /\ UNCHANGED <<ai_credentials_file, ai_sas_token, ai_resource_group,
                   ai_storage_account, ai_access_token>>

\* credentials_file setter: self.credentials = None runs the credentials setter
SetCredentialsFile ==
    /\ \E creds_file \in CredentialsFiles \cup {PyNone} :
           ai_credentials_file' = creds_file
    /\ ai_credentials' = NoCredentials
    /\ ai_invalidated' = (ai_invalidated \/ ai_blob_service_client # NoClient)
    /\ ai_blob_service_client' = Invalidated(ai_blob_service_client)
    /\ ai_compute_client' = NoField
    /\ ai_returned' = NoReturn
    /\ UNCHANGED <<ai_sas_token, ai_resource_group, ai_storage_account, ai_access_token>>

\* sas_token setter
SetSasToken ==
    /\ \E token \in SasTokens \cup {PyNone} : ai_sas_token' = token
    /\ ai_invalidated' = (ai_invalidated \/ ai_blob_service_client # NoClient)
    /\ ai_blob_service_client' = Invalidated(ai_blob_service_client)
    /\ ai_returned' = NoReturn
    /\ UNCHANGED <<ai_credentials, ai_credentials_file, ai_resource_group,
                   ai_storage_account, ai_compute_client, ai_access_token>>

\* resource_group setter
SetResourceGroup ==
    /\ \E group \in ResourceGroups \cup {PyNone} : ai_resource_group' = group
    /\ ai_invalidated' = (ai_invalidated \/ ai_blob_service_client # NoClient)
    /\ ai_blob_service_client' = Invalidated(ai_blob_service_client)
    /\ ai_returned' = NoReturn
    /\ UNCHANGED <<ai_credentials, ai_credentials_file, ai_sas_token,
                   ai_storage_account, ai_compute_client, ai_access_token>>

\* storage_account setter
SetStorageAccount ==
    /\ \E account \in StorageAccounts \cup {PyNone} : ai_storage_account' = account
    /\ ai_invalidated' = (ai_invalidated \/ ai_blob_service_client # NoClient)
    /\ ai_blob_service_client' = Invalidated(ai_blob_service_client)
    /\ ai_returned' = NoReturn
    /\ UNCHANGED <<ai_credentials, ai_credentials_file, ai_sas_token,
                   ai_resource_group, ai_compute_client, ai_access_token>>

\* access_token getter
ReadAccessToken ==
    /\ IF ai_access_token # NoField
       THEN /\ ai_returned' = [NoReturn EXCEPT !.prop = "access_token",
                                               !.token = ai_access_token]
            /\ UNCHANGED <<ai_credentials, ai_access_token>>
       ELSE IF CredentialsMissing(ai_credentials, ai_credentials_file)
       THEN /\ ai_returned' = Raised("access_token", "AzureImgUtilsException")
            /\ UNCHANGED <<ai_credentials, ai_access_token>>
       ELSE LET creds == LoadedCredentials(ai_credentials, ai_credentials_file)
            IN /\ ai_credentials' = creds
               /\ ai_access_token' = Field(creds)
               /\ ai_returned' = [NoReturn EXCEPT !.prop = "access_token",
                                                  !.token = Field(creds)]
    /\ UNCHANGED <<ai_credentials_file, ai_sas_token, ai_resource_group,
                   ai_storage_account, ai_blob_service_client, ai_compute_client,
                   ai_invalidated>>

\* compute_client getter
ReadComputeClient ==
    /\ IF ai_compute_client # NoField
       THEN /\ ai_returned' = [NoReturn EXCEPT !.prop = "compute_client",
                                               !.token = ai_compute_client]
            /\ UNCHANGED <<ai_credentials, ai_compute_client>>
       ELSE IF CredentialsMissing(ai_credentials, ai_credentials_file)
       THEN /\ ai_returned' = Raised("compute_client", "AzureImgUtilsException")
            /\ UNCHANGED <<ai_credentials, ai_compute_client>>
       ELSE LET creds == LoadedCredentials(ai_credentials, ai_credentials_file)
            IN /\ ai_credentials' = creds
               /\ ai_compute_client' = Field(creds)
               /\ ai_returned' = [NoReturn EXCEPT !.prop = "compute_client",
                                                  !.token = Field(creds)]
    /\ UNCHANGED <<ai_credentials_file, ai_sas_token, ai_resource_group,
                   ai_storage_account, ai_blob_service_client, ai_access_token,
                   ai_invalidated>>

\* blob_service_client getter
ReadBlobServiceClient ==
    /\ IF ai_storage_account = PyNone
       THEN /\ ai_returned' = Raised("blob_service_client", "AzureImgUtilsException")
            /\ UNCHANGED <<ai_credentials, ai_blob_service_client>>
       ELSE IF ai_blob_service_client # NoClient
       THEN /\ ai_returned' = [NoReturn EXCEPT !.prop = "blob_service_client",
                                               !.client = ai_blob_service_client]
            /\ UNCHANGED <<ai_credentials, ai_blob_service_client>>
       ELSE IF ai_sas_token # PyNone
       THEN LET client == SasClient(ai_sas_token, ai_storage_account)
            IN /\ ai_blob_service_client' = client
               /\ ai_returned' = [NoReturn EXCEPT !.prop = "blob_service_client",
                                                  !.client = client]
               /\ UNCHANGED ai_credentials
       ELSE IF CredentialsMissing(ai_credentials, ai_credentials_file)
       THEN /\ ai_returned' = Raised("blob_service_client", "AzureImgUtilsException")
            /\ UNCHANGED <<ai_credentials, ai_blob_service_client>>
       ELSE LET creds == LoadedCredentials(ai_credentials, ai_credentials_file)
                client == CredentialsClient(creds, ai_resource_group,
                                            ai_storage_account)
            IN /\ ai_credentials' = creds
               /\ IF ai_resource_group # PyNone
                  THEN /\ ai_blob_service_client' = client
                       /\ ai_returned' = [NoReturn EXCEPT
                                              !.prop = "blob_service_client",
                                              !.client = client]
                  ELSE /\ ai_returned' = Raised("blob_service_client", "Exception")
                       /\ UNCHANGED ai_blob_service_client
    /\ UNCHANGED <<ai_credentials_file, ai_sas_token, ai_resource_group,
                   ai_storage_account, ai_compute_client, ai_access_token,
                   ai_invalidated>>

PropertiesNext ==
    \/ SetCredentials /\ UNCHANGED notAI
    \/ SetCredentialsFile /\ UNCHANGED notAI
    \/ SetSasToken /\ UNCHANGED notAI
    \/ SetResourceGroup /\ UNCHANGED notAI
    \/ SetStorageAccount /\ UNCHANGED notAI
    \/ ReadAccessToken /\ UNCHANGED notAI
    \/ ReadComputeClient /\ UNCHANGED notAI
    \/ ReadBlobServiceClient /\ UNCHANGED notAI

(* ------------- add_image_to_offer / remove_image_from_offer ------------- *)
OfferMutations == {"add_image_to_offer", "remove_image_from_offer"}

\* versions of the offer doc the service may hold
DocVersions == {1, 2}

NoDoc == [version |-> 0, mutated |-> FALSE]

\* faulty variant: the doc goes out before it is changed
ResourceToSubmitMut(plan_details) == [plan_details EXCEPT !.mutated = FALSE]
\* update_resource_in_offer: self.submit_request([resource_doc])
ResourceToSubmit(plan_details) == plan_details

\* add_image_to_offer without a container, or remove_image_from_offer with
\* an image_urn that is not four fields: the call raises before any request
OfferArgumentError ==
    /\ om_pc = "call"
    /\ ~om_valid
    /\ om_pc' = "raised_argument"
    /\ UNCHANGED <<om_op, om_valid, om_server, om_doc, om_trace, om_submitted>>

\* get_offer_doc raises
OfferFetchError ==
    /\ om_pc = "call"
    /\ om_valid
    /\ om_trace' = Append(om_trace, "get_offer_doc")
    /\ om_pc' = "raised_fetch"
    /\ UNCHANGED <<om_op, om_valid, om_server, om_doc, om_submitted>>

\* offer_doc = self.get_offer_doc(offer_id);
\* plan_details = get_technical_details(offer_doc, sku)
OfferFetch ==
    /\ om_pc = "call"
    /\ om_valid
    /\ om_trace' = Append(om_trace, "get_offer_doc")
    /\ om_doc' = [version |-> om_server, mutated |-> FALSE]
    /\ om_pc' = "fetched"
    /\ UNCHANGED <<om_op, om_valid, om_server, om_submitted>>

\* get_technical_details, add_image_version_to_offer or
\* deprecate_image_in_offer_doc raises
OfferMutateRaises ==
    /\ om_pc = "fetched"
    /\ om_trace' = Append(om_trace, "mutate")
    /\ om_pc' = "raised_mutation"
    /\ UNCHANGED <<om_op, om_valid, om_server, om_doc, om_submitted>>

\* plan_details = add_image_version_to_offer(...) or
\* deprecate_image_in_offer_doc(...)
OfferMutateReturns ==
    /\ om_pc = "fetched"
    /\ om_trace' = Append(om_trace, "mutate")
    /\ om_doc' = [om_doc EXCEPT !.mutated = TRUE]
    /\ om_pc' = "mutated"
    /\ UNCHANGED <<om_op, om_valid, om_server, om_submitted>>

\* self.update_resource_in_offer(plan_details): submit_request is entered
\* and calls submit_configure_request
OfferSubmit ==
    /\ om_pc = "mutated"
    /\ om_trace' = Append(om_trace, "submit_configure_request")
    /\ om_submitted' = Append(om_submitted, ResourceToSubmit(om_doc))
    /\ om_pc' = "submitted"
    /\ UNCHANGED <<om_op, om_valid, om_server, om_doc>>

WaitEnded ==
    w_pc \in {"sr_returned", "sr_raised_failed", "raised_timeout",
              "raised_unbound_local", "raised_request"}

\* submit_request has returned or raised, and so does the call
OfferEnd ==
    /\ om_pc = "submitted"
    /\ WaitEnded
    /\ om_pc' = IF w_pc = "sr_returned" THEN "returned" ELSE "raised_submit"
    /\ UNCHANGED <<om_op, om_valid, om_server, om_doc, om_trace, om_submitted>>

\* the job id submit_configure_request hands back for the one request of a call
OfferJobId == "job1"

OfferMutationNext ==
    \/ OfferArgumentError /\ UNCHANGED notOM
    \/ OfferFetchError /\ UNCHANGED notOM
    \/ OfferFetch /\ UNCHANGED notOM
    \/ OfferMutateRaises /\ UNCHANGED notOM
    \/ OfferMutateReturns /\ UNCHANGED notOM
    \/ OfferSubmit /\ CallSubmitRequest /\ w_job_id' = OfferJobId /\ UNCHANGED notOMW
    \/ OfferSubmit /\ SubmitConfigureError /\ UNCHANGED notOMW
    \/ (om_pc = "submitted" /\ WaitPollFinished) /\ UNCHANGED notW
    \/ (om_pc = "submitted" /\ WaitPollSleep) /\ UNCHANGED notW
    \/ (om_pc = "submitted" /\ WaitPollError) /\ UNCHANGED notW
    \/ (om_pc = "submitted" /\ WaitLoopExit) /\ UNCHANGED notW
    \/ (om_pc = "submitted" /\ SubmitRaiseFailed) /\ UNCHANGED notW
    \/ (om_pc = "submitted" /\ SubmitReturn) /\ UNCHANGED notW
    \/ OfferEnd /\ UNCHANGED notOM

(* ---------------------------- specifications --------------------------- *)
\* a call of process_request(endpoint, headers, json_response, retries);
\* no orchestrator call is under way
InitPR ==
    /\ pr_pc = "running"
    /\ pr_N \in 0..MaxRetries
    /\ pr_json \in BOOLEAN
    /\ pr_retries = pr_N
    /\ pr_sleep = 1
    /\ pr_trace = <<>>
    /\ pr_result = NoResponse
    /\ w_pc = "idle"
    /\ w_caller = NoValue
    /\ w_job_id = NoValue
    /\ w_timeout = 0
    /\ w_time_left = 0
    /\ w_wait = 1
    /\ w_polls = 0
    /\ w_sleeps = <<>>
    /\ w_status = Unbound
    /\ w_operation = NoOperation
    /\ w_first_end = 0
    /\ w_error = NoError
    /\ w_result = NoValue
    /\ st_pc = "idle"
    /\ st_history = <<>>
    /\ st_result = NoValue
    /\ up_pc = "idle"
    /\ up_entry = NoValue
    /\ up_blob_arg = NoField
    /\ up_path = <<"image.raw">>
    /\ up_file = NoFile
    /\ up_force = FALSE
    /\ up_expand = TRUE
    /\ up_M = 0
    /\ up_blobs0 = {}
    /\ up_blobs = {}
    /\ up_blob_name = NoValue
    /\ up_max_attempts = 0
    /\ up_msg = ""
    /\ up_attempts = 0
    /\ up_fails = 0
    /\ up_opens = 0
    /\ up_deletes = 0
    /\ up_fresh = TRUE
    /\ up_pos = 0
    /\ up_declared = 0
    /\ up_streamed = 0
    /\ up_last_error = NoValue
    /\ up_error = NoUploadError
    /\ up_result = NoValue
    /\ av_pc = "idle"
    /\ av_image_name = <<>>
    /\ av_today = NoDate
    /\ av_doc0 = <<>>
    /\ av_doc = <<>>
    /\ av_sku = NoValue
    /\ av_generation_id = PyNone
    /\ av_suffix = PyNone
    /\ av_release_date = NoDate
    /\ av_release = <<>>
    /\ av_op = NoValue
    /\ av_calls = 0
    /\ av_logged = FALSE
    /\ gl_pc = "idle"
    /\ gl_history = <<>>
    /\ gl_trace = <<>>
    /\ gl_operation_id = NoField
    /\ gl_submitted = <<>>
    /\ gl_result = NoValue
    /\ ai_credentials = NoCredentials
    /\ ai_credentials_file = PyNone
    /\ ai_sas_token = PyNone
    /\ ai_resource_group = PyNone
    /\ ai_storage_account = PyNone
    /\ ai_blob_service_client = NoClient
    /\ ai_compute_client = NoField
    /\ ai_access_token = NoField
    /\ ai_returned = NoReturn
    /\ ai_invalidated = FALSE
    /\ om_pc = "idle"
    /\ om_op = NoValue
    /\ om_valid = FALSE
    /\ om_server = 0
    /\ om_doc = NoDoc
    /\ om_trace = <<>>
    /\ om_submitted = <<>>

\* no call of wait_on_operation or submit_request has been made yet;
\* process_request is not followed
InitWait ==
    /\ pr_pc = "idle"
    /\ pr_N = 0
    /\ pr_json = TRUE
    /\ pr_retries = 0
    /\ pr_sleep = 1
    /\ pr_trace = <<>>
    /\ pr_result = NoResponse
    /\ w_pc = "idle"
    /\ w_caller = NoValue
    /\ w_job_id = NoValue
    /\ w_timeout = 0
    /\ w_time_left = 0
    /\ w_wait = 1
    /\ w_polls = 0
    /\ w_sleeps = <<>>
    /\ w_status = Unbound
    /\ w_operation = NoOperation
    /\ w_first_end = 0
    /\ w_error = NoError
    /\ w_result = NoValue
    /\ st_pc = "idle"
    /\ st_history = <<>>
    /\ st_result = NoValue
    /\ up_pc = "idle"
    /\ up_entry = NoValue
    /\ up_blob_arg = NoField
    /\ up_path = <<"image.raw">>
    /\ up_file = NoFile
    /\ up_force = FALSE
    /\ up_expand = TRUE
    /\ up_M = 0
    /\ up_blobs0 = {}
    /\ up_blobs = {}
    /\ up_blob_name = NoValue
    /\ up_max_attempts = 0
    /\ up_msg = ""
    /\ up_attempts = 0
    /\ up_fails = 0
    /\ up_opens = 0
    /\ up_deletes = 0
    /\ up_fresh = TRUE
    /\ up_pos = 0
    /\ up_declared = 0
    /\ up_streamed = 0
    /\ up_last_error = NoValue
    /\ up_error = NoUploadError
    /\ up_result = NoValue
    /\ av_pc = "idle"
    /\ av_image_name = <<>>
    /\ av_today = NoDate
    /\ av_doc0 = <<>>
    /\ av_doc = <<>>
    /\ av_sku = NoValue
    /\ av_generation_id = PyNone
    /\ av_suffix = PyNone
    /\ av_release_date = NoDate
    /\ av_release = <<>>
    /\ av_op = NoValue
    /\ av_calls = 0
    /\ av_logged = FALSE
    /\ gl_pc = "idle"
    /\ gl_history = <<>>
    /\ gl_trace = <<>>
    /\ gl_operation_id = NoField
    /\ gl_submitted = <<>>
    /\ gl_result = NoValue
    /\ ai_credentials = NoCredentials
    /\ ai_credentials_file = PyNone
    /\ ai_sas_token = PyNone
    /\ ai_resource_group = PyNone
    /\ ai_storage_account = PyNone
    /\ ai_blob_service_client = NoClient
    /\ ai_compute_client = NoField
    /\ ai_access_token = NoField
    /\ ai_returned = NoReturn
    /\ ai_invalidated = FALSE
    /\ om_pc = "idle"
    /\ om_op = NoValue
    /\ om_valid = FALSE
    /\ om_server = 0
    /\ om_doc = NoDoc
    /\ om_trace = <<>>
    /\ om_submitted = <<>>

\* a call of get_offer_status on an offer with any submission history
InitStatus ==
    /\ pr_pc = "idle"
    /\ pr_N = 0
    /\ pr_json = TRUE
    /\ pr_retries = 0
    /\ pr_sleep = 1
    /\ pr_trace = <<>>
    /\ pr_result = NoResponse
    /\ w_pc = "idle"
    /\ w_caller = NoValue
    /\ w_job_id = NoValue
    /\ w_timeout = 0
    /\ w_time_left = 0
    /\ w_wait = 1
    /\ w_polls = 0
    /\ w_sleeps = <<>>
    /\ w_status = Unbound
    /\ w_operation = NoOperation
    /\ w_first_end = 0
    /\ w_error = NoError
    /\ w_result = NoValue
    /\ st_pc = "call"
    /\ st_history \in Histories
    /\ st_result = NoValue
    /\ up_pc = "idle"
    /\ up_entry = NoValue
    /\ up_blob_arg = NoField
    /\ up_path = <<"image.raw">>
    /\ up_file = NoFile
    /\ up_force = FALSE
    /\ up_expand = TRUE
    /\ up_M = 0
    /\ up_blobs0 = {}
    /\ up_blobs = {}
    /\ up_blob_name = NoValue
    /\ up_max_attempts = 0
    /\ up_msg = ""
    /\ up_attempts = 0
    /\ up_fails = 0
    /\ up_opens = 0
    /\ up_deletes = 0
    /\ up_fresh = TRUE
    /\ up_pos = 0
    /\ up_declared = 0
    /\ up_streamed = 0
    /\ up_last_error = NoValue
    /\ up_error = NoUploadError
    /\ up_result = NoValue
    /\ av_pc = "idle"
    /\ av_image_name = <<>>
    /\ av_today = NoDate
    /\ av_doc0 = <<>>
    /\ av_doc = <<>>
    /\ av_sku = NoValue
    /\ av_generation_id = PyNone
    /\ av_suffix = PyNone
    /\ av_release_date = NoDate
    /\ av_release = <<>>
    /\ av_op = NoValue
    /\ av_calls = 0
    /\ av_logged = FALSE
    /\ gl_pc = "idle"
    /\ gl_history = <<>>
    /\ gl_trace = <<>>
    /\ gl_operation_id = NoField
    /\ gl_submitted = <<>>
    /\ gl_result = NoValue
    /\ ai_credentials = NoCredentials
    /\ ai_credentials_file = PyNone
    /\ ai_sas_token = PyNone
    /\ ai_resource_group = PyNone
    /\ ai_storage_account = PyNone
    /\ ai_blob_service_client = NoClient
    /\ ai_compute_client = NoField
    /\ ai_access_token = NoField
    /\ ai_returned = NoReturn
    /\ ai_invalidated = FALSE
    /\ om_pc = "idle"
    /\ om_op = NoValue
    /\ om_valid = FALSE
    /\ om_server = 0
    /\ om_doc = NoDoc
    /\ om_trace = <<>>
    /\ om_submitted = <<>>

\* a call of upload_image_blob or of upload_azure_file
InitUpload ==
    /\ pr_pc = "idle"
    /\ pr_N = 0
    /\ pr_json = TRUE
    /\ pr_retries = 0
    /\ pr_sleep = 1
    /\ pr_trace = <<>>
    /\ pr_result = NoResponse
    /\ w_pc = "idle"
    /\ w_caller = NoValue
    /\ w_job_id = NoValue
    /\ w_timeout = 0
    /\ w_time_left = 0
    /\ w_wait = 1
    /\ w_polls = 0
    /\ w_sleeps = <<>>
    /\ w_status = Unbound
    /\ w_operation = NoOperation
    /\ w_first_end = 0
    /\ w_error = NoError
    /\ w_result = NoValue
    /\ st_pc = "idle"
    /\ st_history = <<>>
    /\ st_result = NoValue
    /\ up_pc = "start"
    /\ up_entry \in {"upload_image_blob", "upload_azure_file"}
    /\ up_blob_arg \in {Field(b) : b \in BlobNames}
                        \cup (IF up_entry = "upload_image_blob" THEN {NoField} ELSE {})
    /\ up_path \in ImagePaths
    /\ up_file \in ImageFiles
    /\ up_force \in (IF up_entry = "upload_image_blob" THEN BOOLEAN ELSE {FALSE})
    /\ up_expand \in BOOLEAN
    /\ up_M \in -1..MaxAttempts
    /\ up_blobs0 \in SUBSET BlobNames
    /\ up_blobs = up_blobs0
    /\ up_blob_name = NoValue
    /\ up_max_attempts = up_M
    /\ up_msg = ""
    /\ up_attempts = 0
    /\ up_fails = 0
    /\ up_opens = 0
    /\ up_deletes = 0
    /\ up_fresh = TRUE
    /\ up_pos = 0
    /\ up_declared = 0
    /\ up_streamed = 0
    /\ up_last_error = NoValue
    /\ up_error = NoUploadError
    /\ up_result = NoValue
    /\ av_pc = "idle"
    /\ av_image_name = <<>>
    /\ av_today = NoDate
    /\ av_doc0 = <<>>
    /\ av_doc = <<>>
    /\ av_sku = NoValue
    /\ av_generation_id = PyNone
    /\ av_suffix = PyNone
    /\ av_release_date = NoDate
    /\ av_release = <<>>
    /\ av_op = NoValue
    /\ av_calls = 0
    /\ av_logged = FALSE
    /\ gl_pc = "idle"
    /\ gl_history = <<>>
    /\ gl_trace = <<>>
    /\ gl_operation_id = NoField
    /\ gl_submitted = <<>>
    /\ gl_result = NoValue
    /\ ai_credentials = NoCredentials
    /\ ai_credentials_file = PyNone
    /\ ai_sas_token = PyNone
    /\ ai_resource_group = PyNone
    /\ ai_storage_account = PyNone
    /\ ai_blob_service_client = NoClient
    /\ ai_compute_client = NoField
    /\ ai_access_token = NoField
    /\ ai_returned = NoReturn
    /\ ai_invalidated = FALSE
    /\ om_pc = "idle"
    /\ om_op = NoValue
    /\ om_valid = FALSE
    /\ om_server = 0
    /\ om_doc = NoDoc
    /\ om_trace = <<>>
    /\ om_submitted = <<>>

\* a call of add_image_version_to_offer
InitAddVersion ==
    /\ pr_pc = "idle"
    /\ pr_N = 0
    /\ pr_json = TRUE
    /\ pr_retries = 0
    /\ pr_sleep = 1
    /\ pr_trace = <<>>
    /\ pr_result = NoResponse
    /\ w_pc = "idle"
    /\ w_caller = NoValue
    /\ w_job_id = NoValue
    /\ w_timeout = 0
    /\ w_time_left = 0
    /\ w_wait = 1
    /\ w_polls = 0
    /\ w_sleeps = <<>>
    /\ w_status = Unbound
    /\ w_operation = NoOperation
    /\ w_first_end = 0
    /\ w_error = NoError
    /\ w_result = NoValue
    /\ st_pc = "idle"
    /\ st_history = <<>>
    /\ st_result = NoValue
    /\ up_pc = "idle"
    /\ up_entry = NoValue
    /\ up_blob_arg = NoField
    /\ up_path = <<"image.raw">>
    /\ up_file = NoFile
    /\ up_force = FALSE
    /\ up_expand = TRUE
    /\ up_M = 0
    /\ up_blobs0 = {}
    /\ up_blobs = {}
    /\ up_blob_name = NoValue
    /\ up_max_attempts = 0
    /\ up_msg = ""
    /\ up_attempts = 0
    /\ up_fails = 0
    /\ up_opens = 0
    /\ up_deletes = 0
    /\ up_fresh = TRUE
    /\ up_pos = 0
    /\ up_declared = 0
    /\ up_streamed = 0
    /\ up_last_error = NoValue
    /\ up_error = NoUploadError
    /\ up_result = NoValue
    /\ av_pc = "call"
    /\ av_image_name \in ImageNames
    /\ av_today \in Todays
    /\ av_doc0 \in OfferDocs
    /\ av_doc = av_doc0
    /\ av_sku = "sles"
    /\ av_generation_id \in {PyNone} \cup GenerationIds
    /\ av_suffix \in {PyNone, "v2"}
    /\ av_release_date = NoDate
    /\ av_release = <<>>
    /\ av_op = "add"
    /\ av_calls = 1
    /\ av_logged = FALSE
    /\ gl_pc = "idle"
    /\ gl_history = <<>>
    /\ gl_trace = <<>>
    /\ gl_operation_id = NoField
    /\ gl_submitted = <<>>
    /\ gl_result = NoValue
    /\ ai_credentials = NoCredentials
    /\ ai_credentials_file = PyNone
    /\ ai_sas_token = PyNone
    /\ ai_resource_group = PyNone
    /\ ai_storage_account = PyNone
    /\ ai_blob_service_client = NoClient
    /\ ai_compute_client = NoField
    /\ ai_access_token = NoField
    /\ ai_returned = NoReturn
    /\ ai_invalidated = FALSE
    /\ om_pc = "idle"
    /\ om_op = NoValue
    /\ om_valid = FALSE
    /\ om_server = 0
    /\ om_doc = NoDoc
    /\ om_trace = <<>>
    /\ om_submitted = <<>>

\* a first call of add_image_version_to_offer or deprecate_image_in_offer_doc
\* on a doc, more calls on the same doc to follow
InitOfferDoc ==
    /\ pr_pc = "idle"
    /\ pr_N = 0
    /\ pr_json = TRUE
    /\ pr_retries = 0
    /\ pr_sleep = 1
    /\ pr_trace = <<>>
    /\ pr_result = NoResponse
    /\ w_pc = "idle"
    /\ w_caller = NoValue
    /\ w_job_id = NoValue
    /\ w_timeout = 0
    /\ w_time_left = 0
    /\ w_wait = 1
    /\ w_polls = 0
    /\ w_sleeps = <<>>
    /\ w_status = Unbound
    /\ w_operation = NoOperation
    /\ w_first_end = 0
    /\ w_error = NoError
    /\ w_result = NoValue
    /\ st_pc = "idle"
    /\ st_history = <<>>
    /\ st_result = NoValue
    /\ up_pc = "idle"
    /\ up_entry = NoValue
    /\ up_blob_arg = NoField
    /\ up_path = <<"image.raw">>
    /\ up_file = NoFile
    /\ up_force = FALSE
    /\ up_expand = TRUE
    /\ up_M = 0
    /\ up_blobs0 = {}
    /\ up_blobs = {}
    /\ up_blob_name = NoValue
    /\ up_max_attempts = 0
    /\ up_msg = ""
    /\ up_attempts = 0
    /\ up_fails = 0
    /\ up_opens = 0
    /\ up_deletes = 0
    /\ up_fresh = TRUE
    /\ up_pos = 0
    /\ up_declared = 0
    /\ up_streamed = 0
    /\ up_last_error = NoValue
    /\ up_error = NoUploadError
    /\ up_result = NoValue
    /\ av_pc = "call"
    /\ av_op \in {"add", "deprecate"}
    /\ av_image_name \in SeqNames
    /\ av_today \in Todays
    /\ av_doc0 \in SeqDocs
    /\ av_doc = av_doc0
    /\ av_sku \in SkuIds
    /\ av_generation_id \in (IF av_op = "add" THEN {PyNone} \cup GenerationIds
                                             ELSE {PyNone})
    /\ av_suffix = PyNone
    /\ av_release_date = NoDate
    /\ av_release = <<>>
    /\ av_calls = 1
    /\ av_logged = FALSE
    /\ gl_pc = "idle"
    /\ gl_history = <<>>
    /\ gl_trace = <<>>
    /\ gl_operation_id = NoField
    /\ gl_submitted = <<>>
    /\ gl_result = NoValue
    /\ ai_credentials = NoCredentials
    /\ ai_credentials_file = PyNone
    /\ ai_sas_token = PyNone
    /\ ai_resource_group = PyNone
    /\ ai_storage_account = PyNone
    /\ ai_blob_service_client = NoClient
    /\ ai_compute_client = NoField
    /\ ai_access_token = NoField
    /\ ai_returned = NoReturn
    /\ ai_invalidated = FALSE
    /\ om_pc = "idle"
    /\ om_op = NoValue
    /\ om_valid = FALSE
    /\ om_server = 0
    /\ om_doc = NoDoc
    /\ om_trace = <<>>
    /\ om_submitted = <<>>

\* a call of go_live_with_offer
InitGoLive ==
    /\ pr_pc = "idle"
    /\ pr_N = 0
    /\ pr_json = TRUE
    /\ pr_retries = 0
    /\ pr_sleep = 1
    /\ pr_trace = <<>>
    /\ pr_result = NoResponse
    /\ w_pc = "idle"
    /\ w_caller = NoValue
    /\ w_job_id = NoValue
    /\ w_timeout = 0
    /\ w_time_left = 0
    /\ w_wait = 1
    /\ w_polls = 0
    /\ w_sleeps = <<>>
    /\ w_status = Unbound
    /\ w_operation = NoOperation
    /\ w_first_end = 0
    /\ w_error = NoError
    /\ w_result = NoValue
    /\ st_pc = "idle"
    /\ st_history = <<>>
    /\ st_result = NoValue
    /\ up_pc = "idle"
    /\ up_entry = NoValue
    /\ up_blob_arg = NoField
    /\ up_path = <<"image.raw">>
    /\ up_file = NoFile
    /\ up_force = FALSE
    /\ up_expand = TRUE
    /\ up_M = 0
    /\ up_blobs0 = {}
    /\ up_blobs = {}
    /\ up_blob_name = NoValue
    /\ up_max_attempts = 0
    /\ up_msg = ""
    /\ up_attempts = 0
    /\ up_fails = 0
    /\ up_opens = 0
    /\ up_deletes = 0
    /\ up_fresh = TRUE
    /\ up_pos = 0
    /\ up_declared = 0
    /\ up_streamed = 0
    /\ up_last_error = NoValue
    /\ up_error = NoUploadError
    /\ up_result = NoValue
    /\ av_pc = "idle"
    /\ av_image_name = <<>>
    /\ av_today = NoDate
    /\ av_doc0 = <<>>
    /\ av_doc = <<>>
    /\ av_sku = NoValue
    /\ av_generation_id = PyNone
    /\ av_suffix = PyNone
    /\ av_release_date = NoDate
    /\ av_release = <<>>
    /\ av_op = NoValue
    /\ av_calls = 0
    /\ av_logged = FALSE
    /\ gl_pc = "call"
    /\ gl_history \in GoLiveHistories
    /\ gl_trace = <<>>
    /\ gl_operation_id = NoField
    /\ gl_submitted = <<>>
    /\ gl_result = NoValue
    /\ ai_credentials = NoCredentials
    /\ ai_credentials_file = PyNone
    /\ ai_sas_token = PyNone
    /\ ai_resource_group = PyNone
    /\ ai_storage_account = PyNone
    /\ ai_blob_service_client = NoClient
    /\ ai_compute_client = NoField
    /\ ai_access_token = NoField
    /\ ai_returned = NoReturn
    /\ ai_invalidated = FALSE
    /\ om_pc = "idle"
    /\ om_op = NoValue
    /\ om_valid = FALSE
    /\ om_server = 0
    /\ om_doc = NoDoc
    /\ om_trace = <<>>
    /\ om_submitted = <<>>

\* an AzureImage as __init__ leaves it
InitProperties ==
    /\ pr_pc = "idle"
    /\ pr_N = 0
    /\ pr_json = TRUE
    /\ pr_retries = 0
    /\ pr_sleep = 1
    /\ pr_trace = <<>>
    /\ pr_result = NoResponse
    /\ w_pc = "idle"
    /\ w_caller = NoValue
    /\ w_job_id = NoValue
    /\ w_timeout = 0
    /\ w_time_left = 0
    /\ w_wait = 1
    /\ w_polls = 0
    /\ w_sleeps = <<>>
    /\ w_status = Unbound
    /\ w_operation = NoOperation
    /\ w_first_end = 0
    /\ w_error = NoError
    /\ w_result = NoValue
    /\ st_pc = "idle"
    /\ st_history = <<>>
    /\ st_result = NoValue
    /\ up_pc = "idle"
    /\ up_entry = NoValue
    /\ up_blob_arg = NoField
    /\ up_path = <<"image.raw">>
    /\ up_file = NoFile
    /\ up_force = FALSE
    /\ up_expand = TRUE
    /\ up_M = 0
    /\ up_blobs0 = {}
    /\ up_blobs = {}
    /\ up_blob_name = NoValue
    /\ up_max_attempts = 0
    /\ up_msg = ""
    /\ up_attempts = 0
    /\ up_fails = 0
    /\ up_opens = 0
    /\ up_deletes = 0
    /\ up_fresh = TRUE
    /\ up_pos = 0
    /\ up_declared = 0
    /\ up_streamed = 0
    /\ up_last_error = NoValue
    /\ up_error = NoUploadError
    /\ up_result = NoValue
    /\ av_pc = "idle"
    /\ av_image_name = <<>>
    /\ av_today = NoDate
    /\ av_doc0 = <<>>
    /\ av_doc = <<>>
    /\ av_sku = NoValue
    /\ av_generation_id = PyNone
    /\ av_suffix = PyNone
    /\ av_release_date = NoDate
    /\ av_release = <<>>
    /\ av_op = NoValue
    /\ av_calls = 0
    /\ av_logged = FALSE
    /\ gl_pc = "idle"
    /\ gl_history = <<>>
    /\ gl_trace = <<>>
    /\ gl_operation_id = NoField
    /\ gl_submitted = <<>>
    /\ gl_result = NoValue
    /\ ai_credentials \in {Dict(c) : c \in CredentialsDicts} \cup {NoCredentials}
    /\ ai_credentials_file \in CredentialsFiles \cup {PyNone}
    /\ ai_sas_token \in SasTokens \cup {PyNone}
    /\ ai_resource_group \in ResourceGroups \cup {PyNone}
    /\ ai_storage_account \in StorageAccounts \cup {PyNone}
    /\ ai_blob_service_client = NoClient
    /\ ai_compute_client = NoField
    /\ ai_access_token = NoField
    /\ ai_returned = NoReturn
    /\ ai_invalidated = FALSE
    /\ om_pc = "idle"
    /\ om_op = NoValue
    /\ om_valid = FALSE
    /\ om_server = 0
    /\ om_doc = NoDoc
    /\ om_trace = <<>>
    /\ om_submitted = <<>>

\* a call of add_image_to_offer or remove_image_from_offer
InitOfferMutation ==
    /\ pr_pc = "idle"
    /\ pr_N = 0
    /\ pr_json = TRUE
    /\ pr_retries = 0
    /\ pr_sleep = 1
    /\ pr_trace = <<>>
    /\ pr_result = NoResponse
    /\ w_pc = "idle"
    /\ w_caller = NoValue
    /\ w_job_id = NoValue
    /\ w_timeout = 0
    /\ w_time_left = 0
    /\ w_wait = 1
    /\ w_polls = 0
    /\ w_sleeps = <<>>
    /\ w_status = Unbound
    /\ w_operation = NoOperation
    /\ w_first_end = 0
    /\ w_error = NoError
    /\ w_result = NoValue
    /\ st_pc = "idle"
    /\ st_history = <<>>
    /\ st_result = NoValue
    /\ up_pc = "idle"
    /\ up_entry = NoValue
    /\ up_blob_arg = NoField
    /\ up_path = <<"image.raw">>
    /\ up_file = NoFile
    /\ up_force = FALSE
    /\ up_expand = TRUE
    /\ up_M = 0
    /\ up_blobs0 = {}
    /\ up_blobs = {}
    /\ up_blob_name = NoValue
    /\ up_max_attempts = 0
    /\ up_msg = ""
    /\ up_attempts = 0
    /\ up_fails = 0
    /\ up_opens = 0
    /\ up_deletes = 0
    /\ up_fresh = TRUE
    /\ up_pos = 0
    /\ up_declared = 0
    /\ up_streamed = 0
    /\ up_last_error = NoValue
    /\ up_error = NoUploadError
    /\ up_result = NoValue
    /\ av_pc = "idle"
    /\ av_image_name = <<>>
    /\ av_today = NoDate
    /\ av_doc0 = <<>>
    /\ av_doc = <<>>
    /\ av_sku = NoValue
    /\ av_generation_id = PyNone
    /\ av_suffix = PyNone
    /\ av_release_date = NoDate
    /\ av_release = <<>>
    /\ av_op = NoValue
    /\ av_calls = 0
    /\ av_logged = FALSE
    /\ gl_pc = "idle"
    /\ gl_history = <<>>
    /\ gl_trace = <<>>
    /\ gl_operation_id = NoField
    /\ gl_submitted = <<>>
    /\ gl_result = NoValue
    /\ ai_credentials = NoCredentials
    /\ ai_credentials_file = PyNone
    /\ ai_sas_token = PyNone
    /\ ai_resource_group = PyNone
    /\ ai_storage_account = PyNone
    /\ ai_blob_service_client = NoClient
    /\ ai_compute_client = NoField
    /\ ai_access_token = NoField
    /\ ai_returned = NoReturn
    /\ ai_invalidated = FALSE
    /\ om_pc = "call"
    /\ om_op \in OfferMutations
    /\ om_valid \in BOOLEAN
    /\ om_server \in DocVersions
    /\ om_doc = NoDoc
    /\ om_trace = <<>>
    /\ om_submitted = <<>>

SpecPR == InitPR /\ [][PRNext]_vars

SpecWait == InitWait /\ [][WaitNext]_vars

SpecStatus == InitStatus /\ [][StatusNext]_vars

SpecUpload == InitUpload /\ [][UploadNext]_vars

SpecAddVersion == InitAddVersion /\ [][AddVersionNext]_vars

SpecOfferDoc == InitOfferDoc /\ [][OfferDocNext]_vars

SpecGoLive == InitGoLive /\ [][GoLiveNext]_vars

SpecProperties == InitProperties /\ [][PropertiesNext]_vars

SpecOfferMutation == InitOfferMutation /\ [][OfferMutationNext]_vars

(* ------------------------------- claims -------------------------------- *)
AllConnectionFailures(t) == \A i \in 1..Len(t) : t[i].kind = "conn"

PRTerminated == pr_pc \in {"returned", "raised_connection", "raised_status"}

\* C1: a process_request call with retries = N issues at most N+1 requests,
\* whatever the server answers: once the budget is 0 a status other than
\* 200/202 raises instead of sleeping and requesting again.
C1_AtMostNPlusOneRequests ==
    /\ CountRequests(pr_trace) <= pr_N + 1
    /\ (pr_pc = "running" /\ pr_trace # <<>> /\ pr_trace[Len(pr_trace)].kind = "sleep")
           => CountRequests(pr_trace) <= pr_N

\* C2: when every attempt fails with a connection error, a call with
\* retries = N issues exactly N+1 requests and then the connection error
\* propagates: before the (N+1)-th request the call is still running, and
\* at the (N+1)-th it has raised the connection error.
C2_ConnectionFailuresIssueNPlusOne ==
    AllConnectionFailures(pr_trace) =>
        /\ pr_pc \in {"running", "raised_connection"}
        /\ pr_pc = "running" => Len(pr_trace) <= pr_N
        /\ pr_pc = "raised_connection" => Len(pr_trace) = pr_N + 1
        /\ Len(pr_trace) = pr_N + 1 => pr_pc = "raised_connection"

C2_Witness ==
    /\ pr_N >= 2
    /\ pr_pc = "raised_connection"
    /\ AllConnectionFailures(pr_trace)
    /\ Len(pr_trace) = pr_N + 1

\* C3: every retry of process_request (a request after the first one) is
\* directly preceded by a sleep, and each sleep is twice the previous one.
C3_EveryRetrySleepsDoubling ==
    /\ \A i \in 2..Len(pr_trace) :
           IsRequest(pr_trace[i]) => pr_trace[i - 1].kind = "sleep"
    /\ LET sleeps == SleepsOf(pr_trace)
       IN \A k \in 2..Len(sleeps) : sleeps[k] = 2 * sleeps[k - 1]

\* C4: process_request returns only for a response with status 200 or 202,
\* and on the first such response (it is the last request issued); any other
\* status is never returned, and while retries > 0 such a response costs one
\* retry and leaves the call running, that is, about to request again.
C4_ReturnedOnlyOnSuccess ==
    /\ pr_pc = "returned" <=> pr_result # NoResponse
    /\ pr_pc = "returned" =>
           /\ pr_trace[Len(pr_trace)] = RespEvent(pr_result.status)
           /\ pr_result.status \in {200, 202}
    /\ \A i \in 1..Len(pr_trace) :
           (pr_trace[i].kind = "resp" /\ pr_trace[i].val \in {200, 202})
               => (i = Len(pr_trace) /\ pr_pc = "returned")

C4_OtherStatusConsumesRetry ==
    (/\ pr_retries > 0
     /\ Len(pr_trace') > Len(pr_trace)
     /\ pr_trace'[Len(pr_trace) + 1].kind = "resp"
     /\ pr_trace'[Len(pr_trace) + 1].val \notin {200, 202})
        => (pr_retries' = pr_retries - 1 /\ pr_pc' = "running" /\ pr_result' = NoResponse)

C4_SuccessOnlyAndRetry ==
    [](C4_ReturnedOnlyOnSuccess) /\ [][C4_OtherStatusConsumesRetry]_vars

C4_Witness ==
    /\ pr_pc = "returned"
    /\ pr_result.status = 202
    /\ \E i \in 1..Len(pr_trace) : pr_trace[i] = RespEvent(500)
    /\ pr_retries < pr_N

WaitReturned == w_pc \in {"returned", "sr_returned", "sr_raised_failed"}

\* C5: wait_on_operation returns the polled operation as soon as a poll
\* reports jobStatus completed or unknown (also the value taken when the
\* answer has no jobStatus): that poll is the last one, no sleep follows it.
C5_StopsAtCompletedOrUnknown ==
    w_first_end # 0 =>
        /\ WaitReturned
        /\ w_polls = w_first_end
        /\ Len(w_sleeps) = w_first_end - 1

\* C6: wait_on_operation with timeout 0 raises the operation-timeout error
\* having polled at most once.
C6_TimeoutZeroRaisesTimeout ==
    (w_caller = "wait_on_operation" /\ w_timeout = 0 /\ w_pc # "loop")
        => (w_pc = "raised_timeout" /\ w_error.kind = "timeout" /\ w_polls <= 1)

\* C7: the timeout error is raised only when the cumulative sleep has
\* reached the timeout and the last poll reported a status other than
\* completed/unknown; the error carries that status; and it is never raised
\* after some poll reported completed or unknown.
C7_TimeoutOnlyAfterNonTerminalPoll ==
    w_pc = "raised_timeout" =>
        /\ SumSeq(w_sleeps) = w_timeout
        /\ w_status \notin {"completed", "unknown"}
        /\ w_error.status = Get(w_operation.jobStatus, "unknown")
        /\ w_first_end = 0

\* C8: the k-th sleep of wait_on_operation (k = 0, 1, ...) lasts
\* min(2^k, remaining budget); the cumulative sleep never exceeds the
\* timeout, the remaining budget is never negative, and a call that ran out
\* of budget has slept for exactly the timeout.
C8_SleepSchedule ==
    /\ \A k \in 1..Len(w_sleeps) :
           LET remaining == w_timeout - SumSeq(SubSeq(w_sleeps, 1, k - 1))
           IN w_sleeps[k] = (IF Pow2(k - 1) < remaining THEN Pow2(k - 1) ELSE remaining)
    /\ SumSeq(w_sleeps) <= w_timeout
    /\ w_time_left >= 0
    /\ w_time_left = w_timeout - SumSeq(w_sleeps)
    /\ w_pc \in {"raised_timeout", "raised_unbound_local"} => SumSeq(w_sleeps) = w_timeout

C8_Witness ==
    /\ w_pc = "raised_timeout"
    /\ w_timeout = 8
    /\ w_sleeps = <<1, 2, 4, 1>>

\* C9: when the operation obtained by waiting has jobResult failed,
\* submit_request raises with a message made of the prefix followed by every
\* reported error message, in the reported order, each followed by the
\* separator, and no job id is returned.
C9_FailedRaisesWithAllMessages ==
    (w_pc \in {"sr_returned", "sr_raised_failed"}
        /\ w_operation.jobResult = Field("failed")) =>
        LET errors == IF w_operation.errors = NoField THEN <<>> ELSE w_operation.errors[1]
            msg == w_error.msg
        IN /\ w_pc = "sr_raised_failed"
           /\ w_error.kind = "failed"
           /\ w_result = NoValue
           /\ Len(msg) = 1 + 2 * Len(errors)
           /\ \A i \in 1..Len(errors) :
                  /\ msg[2 * i] = (IF errors[i].message = NoField THEN ""
                                   ELSE errors[i].message[1])
                  /\ msg[2 * i + 1] = " "

C9_Witness ==
    /\ w_pc = "sr_raised_failed"
    /\ w_operation.errors = Field(<<[message |-> Field("m2")], [message |-> Field("m1")]>>)
    /\ w_error.msg = <<"Failed to update resource: ", "m2", " ", "m1", " ">>

TargetIdx(h, target) == {i \in 1..Len(h) : h[i].targetType = target}
MinIdx(S) == CHOOSE i \in S : \A j \in S : i <= j
MaxIdx(S) == CHOOSE i \in S : \A j \in S : j <= i

SubRunning(s) == s.status = Field("running")
SubCompleted(s, result) == s.status = Field("completed") /\ s.result = Field(result)

\* the preview-target submission the status is decided from, if any
PreviewDecides(h) ==
    /\ TargetIdx(h, "preview") # {}
    /\ LET p == h[MinIdx(TargetIdx(h, "preview"))]
       IN SubRunning(p) \/ SubCompleted(p, "failed") \/ SubCompleted(p, "succeeded")

\* C11: with exactly two live-target submissions and no deciding preview
\* submission, get_offer_status returns running if either of the two is
\* running, in whatever order they are listed; otherwise it returns failed
\* if the newer (later listed) one is completed with result failed.
C11_TwoLiveRunningWins ==
    (st_pc = "returned" /\ Cardinality(TargetIdx(st_history, "live")) = 2
        /\ ~PreviewDecides(st_history)) =>
        LET older == st_history[MinIdx(TargetIdx(st_history, "live"))]
            newer == st_history[MaxIdx(TargetIdx(st_history, "live"))]
        IN /\ (SubRunning(older) \/ SubRunning(newer)) => st_result = "running"
           /\ (~SubRunning(older) /\ ~SubRunning(newer) /\ SubCompleted(newer, "failed"))
                  => st_result = "failed"

\* C12: get_offer_status returns one of running, waitingForPublisherReview,
\* succeeded, failed, unknown, and it returns unknown when no preview rule
\* and no one- or two-live-submission rule applies.
C12_FiveValuesUnknownOtherwise ==
    st_pc = "returned" =>
        /\ st_result \in {"running", "waitingForPublisherReview", "succeeded",
                          "failed", "unknown"}
        /\ (~PreviewDecides(st_history)
              /\ Cardinality(TargetIdx(st_history, "live")) \notin {1, 2})
               => st_result = "unknown"

\* C13: when the history has a preview-target submission, the status is
\* decided from it (the first one listed) before any live-target submission
\* is looked at: running gives running, completed/failed gives failed,
\* completed/succeeded gives waitingForPublisherReview, whatever the
\* live-target submissions are.
C13_PreviewDecidesFirst ==
    (st_pc = "returned" /\ TargetIdx(st_history, "preview") # {}) =>
        LET p == st_history[MinIdx(TargetIdx(st_history, "preview"))]
        IN /\ SubRunning(p) => st_result = "running"
           /\ SubCompleted(p, "failed") => st_result = "failed"
           /\ SubCompleted(p, "succeeded") => st_result = "waitingForPublisherReview"

C13_Witness ==
    /\ st_pc = "returned"
    /\ Len(st_history) = 3
    /\ st_history[1].targetType = "live" /\ SubRunning(st_history[1])
    /\ st_history[2].targetType = "live" /\ SubCompleted(st_history[2], "failed")
    /\ st_history[3].targetType = "preview" /\ SubCompleted(st_history[3], "succeeded")
    /\ st_result = "waitingForPublisherReview"

\* C14: when no preview rule applies and there is exactly one live-target
\* submission, get_offer_status returns that submission's result if it is
\* completed and running if it is running.
C14_SingleLive ==
    (st_pc = "returned" /\ ~PreviewDecides(st_history)
        /\ Cardinality(TargetIdx(st_history, "live")) = 1) =>
        LET l == st_history[MinIdx(TargetIdx(st_history, "live"))]
        IN /\ l.status = Field("completed") =>
                  st_result = (IF l.result = NoField THEN PyNone ELSE l.result[1])
           /\ SubRunning(l) => st_result = "running"

C14_Witness ==
    /\ st_pc = "returned"
    /\ Len(st_history) = 3
    /\ st_history[1].targetType = "preview" /\ st_history[1].status = NoField
    /\ st_history[2].targetType = "draft"
    /\ st_history[3].targetType = "live" /\ SubCompleted(st_history[3], "succeeded")
    /\ st_result = "succeeded"

(* ------------------- claims on upload_image_blob ------------------------ *)
UploadTerminated ==
    up_pc \in {"returned", "raised_exists", "raised_max_attempts", "raised_not_found",
               "raised_file_not_found_error", "raised_storage"}

\* the blob name the call is about: the argument, or the last component of
\* the file path when none is given
TargetBlobName ==
    IF up_blob_arg = NoField THEN up_path[Len(up_path)] ELSE up_blob_arg[1]

\* a blob of that name was in the container when the call was made
BlobExisted == TargetBlobName \in up_blobs0

\* C15: upload_image_blob with max_attempts = M >= 1 makes at most M upload
\* attempts, each on a stream opened anew at position 0; it returns the
\* blob name right after the first attempt that succeeds, and when all M
\* attempts failed it raises AzureImgUtilsStorageException with the message
\* of the last attempt's error.
C15_AtMostMFreshAttempts ==
    (up_entry = "upload_image_blob" /\ up_M >= 1) =>
        /\ up_attempts <= up_M
        /\ up_fresh
        /\ up_opens = up_attempts + (IF up_pc = "raised_not_found" THEN 1 ELSE 0)
        /\ up_max_attempts = up_M - up_fails
        /\ (up_pc = "returned") <=> (up_attempts = up_fails + 1)
        /\ up_pc = "returned" => up_result = TargetBlobName
        /\ up_pc = "raised_storage" =>
               /\ up_attempts = up_M
               /\ up_fails = up_M
               /\ up_error.kind = "AzureImgUtilsStorageException"
               /\ up_error.msg = <<"Unable to upload ", up_path, ": ", up_last_error>>

\* two attempts raise, the third succeeds
C15_Witness ==
    /\ up_entry = "upload_image_blob"
    /\ up_M = 3
    /\ up_pc = "returned"
    /\ up_attempts = 3
    /\ up_fails = 2
    /\ up_result = "image.raw"

\* C16: a call with a non-positive attempt count that gets as far as the
\* attempt count ends in the configuration error, never in the storage
\* exception, and makes no upload attempt - for upload_image_blob and for
\* upload_azure_file.
C16_NonPositiveIsConfigurationError ==
    (up_M <= 0 /\ UploadTerminated /\ up_pc # "raised_exists") =>
        /\ up_pc = "raised_max_attempts"
        /\ up_error.kind = "Exception: max_attempts"
        /\ up_attempts = 0

\* C17 as stated: whatever max_attempts is, upload_image_blob of a missing
\* file ends in the file-not-found AzureImgUtilsException with no upload
\* attempt made and no attempt consumed.
C17_MissingFileAlwaysNotFound ==
    (up_entry = "upload_image_blob" /\ ~up_file.exists /\ UploadTerminated) =>
        /\ up_pc = "raised_not_found"
        /\ up_error.kind = "AzureImgUtilsException: not found"
        /\ up_attempts = 0
        /\ up_max_attempts = up_M

\* C17: upload_image_blob of a missing file makes no upload attempt and
\* consumes no attempt; unless the call is rejected before the file is
\* opened (the blob exists and force_replace_image is unset, or
\* max_attempts <= 0) it ends at the first open in the file-not-found
\* AzureImgUtilsException.
C17_MissingFileNotFoundAtFirstOpen ==
    (up_entry = "upload_image_blob" /\ ~up_file.exists) =>
        /\ up_attempts = 0
        /\ up_fails = 0
        /\ up_max_attempts = up_M
        /\ up_opens <= 1
        /\ up_pc \notin {"returned", "raised_storage", "raised_file_not_found_error"}
        /\ (UploadTerminated /\ ~(BlobExisted /\ ~up_force) /\ up_M >= 1) =>
               /\ up_pc = "raised_not_found"
               /\ up_error.kind = "AzureImgUtilsException: not found"
               /\ up_opens = 1

C17_Witness ==
    /\ up_entry = "upload_image_blob"
    /\ ~up_file.exists
    /\ up_M = 3
    /\ up_pc = "raised_not_found"
    /\ up_max_attempts = 3
    /\ up_opens = 1

\* C18: the length declared to upload_blob is the decompressed size exactly
\* when the file is XZ compressed and expand_image is set, the file size
\* otherwise, and so equals the number of bytes of the stream handed over.
C18_DeclaredLengthIsStreamLength ==
    up_attempts >= 1 =>
        /\ up_declared = (IF up_file.xz /\ up_expand THEN up_file.expanded
                                                    ELSE up_file.raw)
        /\ up_declared = up_streamed

DateWindows(name) ==
    {i \in DigitWindows(name) : StrptimeAccepts(SubSeq(name, i, i + 7))}

\* YYYY.MM.DD of the 8 digits at position i
DottedDate(name, i) ==
    SubSeq(name, i, i + 3) \o <<".">> \o SubSeq(name, i + 4, i + 5) \o <<".">>
        \o SubSeq(name, i + 6, i + 7)

AddVersionDone ==
    av_pc \in {"returned", "raised_value_error", "raised_no_sku", "raised_no_generation"}

\* C20: for an image name that contains 8 digits that are a date YYYYMMDD,
\* whatever surrounds them, the call derives a date (it does not fail on
\* the name) and the version number it writes is YYYY.MM.DD of such a
\* date of the name; for a name without 8 digits in a row it derives
\* today's date.
C20_VersionFromDateSubstring ==
    AddVersionDone =>
        /\ DateWindows(av_image_name) # {} =>
               /\ av_pc # "raised_value_error"
               /\ av_release # <<>> =>
                      \E i \in DateWindows(av_image_name) :
                          av_release = DottedDate(av_image_name, i)
        /\ DigitWindows(av_image_name) = {} =>
               /\ av_release_date = av_today
               /\ av_release # <<>> => av_release = ReleaseKey(av_today)

C22_NoMatchLeavesDocUnchanged ==
    av_pc \in {"raised_no_sku", "raised_no_generation"} => av_doc = av_doc0

(* -------------- claims on sequences of calls on one offer doc ----------- *)
\* the plans of a doc and their generation plans
AllPlans(doc) ==
    {doc[i] : i \in 1..Len(doc)}
    \cup UNION {{doc[i].diskGenerations[g] : g \in 1..Len(doc[i].diskGenerations)} :
                   i \in 1..Len(doc)}

DeprecateDone ==
    /\ av_op = "deprecate"
    /\ av_pc \in {"returned", "raised_value_error", "raised_no_match"}

\* the image versions of the SKU's plans that carry the given image name
NamedVersions(doc, sku, name) ==
    {<<i, e>> \in (1..Len(doc)) \X UNION {Entries(doc[i]) : i \in 1..Len(doc)} :
        /\ doc[i].planId = sku
        /\ e \in Entries(doc[i])
        /\ e.value.mediaName = name}

\* C24: a deprecate call whose image matches a version of the doc exactly
\* returns with that version marked deprecated; a call whose image matches
\* no version of the doc raises the no-match error and does not return.
C24_DeprecateMarksOrRaises ==
    (DeprecateDone /\ av_pc # "raised_value_error") =>
        IF NamedVersions(av_doc0, av_sku, av_image_name) # {}
        THEN /\ av_pc = "returned"
             /\ \A m \in NamedVersions(av_doc, av_sku, av_image_name) :
                    ~m[2].value.showInGui
        ELSE av_pc = "raised_no_match"

\* the version the deprecate call is about, when the doc held it already
\* marked deprecated
AlreadyDeprecated ==
    /\ DigitWindows(av_image_name) # {}
    /\ StrptimeAccepts(FirstMatch(av_image_name))
    /\ DeprecateIdx(av_doc0, av_sku, NameRelease(av_image_name)) # {}
    /\ LET r == NameRelease(av_image_name)
           i == CHOOSE j \in DeprecateIdx(av_doc0, av_sku, r) :
                    \A k \in DeprecateIdx(av_doc0, av_sku, r) : j <= k
       IN \A e \in EntriesAt(av_doc0[i], r) :
              e.value.mediaName = av_image_name /\ ~e.value.showInGui

TracePositions(call) == {i \in 1..Len(gl_trace) : gl_trace[i] = call}

\* C26: go_live_with_offer reads the submission history before it submits
\* anything; the record it submits has target live and carries the id of
\* the preview submission of the history; when the history holds no
\* preview submission no record is submitted.
C26_GoLiveReferencesPreview ==
    /\ \A s \in TracePositions("submit_request") :
           \E h \in TracePositions("get_offer_submissions") : h < s
    /\ \A n \in 1..Len(gl_submitted) :
           /\ gl_submitted[n].targetType = "live"
           /\ gl_submitted[n].id = FirstPreviewId(gl_history)
    /\ PreviewIdx(gl_history) = {} => gl_submitted = <<>>

(* -------------------- claims on AzureImage properties ------------------- *)
\* the credentials that are set now: the dict, or the content of the file
CurrentCredentials == LoadedCredentials(ai_credentials, ai_credentials_file)

\* the blob service client the values that are set now give
CurrentClient ==
    IF ai_sas_token # PyNone
    THEN SasClient(ai_sas_token, ai_storage_account)
    ELSE CredentialsClient(CurrentCredentials, ai_resource_group, ai_storage_account)

\* C27: after any sequence of assignments to credentials and credentials_file
\* and of reads, the bearer token access_token returns was acquired from the
\* credentials that are set at the time of the read.
C27_TokenFromCurrentCredentials ==
    (ai_returned.prop = "access_token" /\ ai_returned.error = NoValue) =>
        ai_returned.token = Field(CurrentCredentials)

\* C29: after any sequence of assignments to sas_token, credentials,
\* credentials_file, resource_group and storage_account and of reads, the
\* client blob_service_client returns was built from the values set at the
\* time of the read - from the sas_token when one is set, else from the
\* credentials and the resource_group; no client of other values stays cached.
C29_BlobClientFromCurrentValues ==
    /\ (ai_returned.prop = "blob_service_client" /\ ai_returned.error = NoValue) =>
           ai_returned.client = CurrentClient
    /\ ai_blob_service_client # NoClient => ai_blob_service_client = CurrentClient

\* a client built from credentials after an earlier client was dropped
C29_Witness ==
    /\ ai_returned.prop = "blob_service_client"
    /\ ai_returned.error = NoValue
    /\ ai_returned.client.kind = "credentials"
    /\ ai_returned.client.credentials = FileContent("file 2")
    /\ ai_invalidated

(* --------------------- claims on the offer mutations -------------------- *)
\* positions of a step in the trace of the call
StepPositions(step) == {n \in 1..Len(om_trace) : om_trace[n] = step}

\* every step a comes before every step b
StepsBefore(a, b) ==
    \A m \in StepPositions(a) : \A n \in StepPositions(b) : m < n

C30_RejectedLeavesStorageUnchanged ==
    (up_entry = "upload_image_blob" /\ up_pc = "raised_max_attempts") =>
        /\ up_deletes = 0
        /\ up_blobs = up_blobs0

====
